---- MODULE Spec2Model ----
(***************************************************************************)
(* A model of the Apple iOS MakerNote decoder of deanh/wheresmy            *)
(* (src/wheresmy/utils/apple_makernote.py): the byte normalizer, the       *)
(* nested TIFF directory parser, the signature and value-range scanners    *)
(* and the clean-summary projection.                                       *)
(*                                                                         *)
(* Bytes are numbers 0..255, byte strings and text are sequences of code   *)
(* points, Python offsets are 0-based.  A 32-bit unsigned value is kept as *)
(* the pair <<high 16 bits, low 16 bits>>, the same integer in base 65536. *)
(* A Python dict is a function whose DOMAIN is its key set, so an absent   *)
(* key is absent from the DOMAIN.                                          *)
(***************************************************************************)
EXTENDS Integers, Sequences, FiniteSets, TLC

VARIABLES pc, input, cleaned_str, i, cleaned_bytes, result, clean,
          dir, data, big_endian, tiff, earlier

vars == <<pc, input, cleaned_str, i, cleaned_bytes, result, clean,
          dir, data, big_endian, tiff, earlier>>

(***************************************************************************)
(* Bounds of the explored inputs.                                          *)
(***************************************************************************)
MaxEntries == 2

(***************************************************************************)
(* Python sequence primitives.                                             *)
(***************************************************************************)
Min(a, b) == IF a <= b THEN a ELSE b

Max(a, b) == IF a >= b THEN a ELSE b

\* s[a:b] for 0 <= a: the slice is clipped to the sequence, never an error.
Slice(s, a, b) ==
  LET e == Min(b, Len(s))
  IN IF e <= a THEN << >> ELSE [k \in 1..(e - a) |-> s[a + k]]

\* s[a:]
SliceFrom(s, a) == Slice(s, a, Len(s))

\* bytes.startswith / bytes.endswith
StartsWith(s, p) == Len(s) >= Len(p) /\ Slice(s, 0, Len(p)) = p

EndsWith(s, p) == Len(s) >= Len(p) /\ Slice(s, Len(s) - Len(p), Len(s)) = p

\* the literal p occurs in s at 0-based offset o
MatchAt(s, p, o) == o + Len(p) <= Len(s) /\ \A k \in 1..Len(p) : s[o + k] = p[k]

RECURSIVE ConcatAll(_)
ConcatAll(ss) == IF ss = << >> THEN << >> ELSE Head(ss) \o ConcatAll(Tail(ss))

(***************************************************************************)
(* Searching: re.search and re.finditer for a literal pattern.             *)
(***************************************************************************)
\* the least and the greatest element of a non-empty set of integers
Least(S) == CHOOSE x \in S : \A y \in S : x <= y

Greatest(S) == CHOOSE x \in S : \A y \in S : x >= y

\* list(range(a, b))
Range(a, b) == [k \in 1..Max(0, b - a) |-> a + k - 1]

\* re.search(p, s).start() from offset o on, or -1 when there is no match
SearchFrom(s, p, o) ==
  LET found == {m \in o..(Len(s) - Len(p)) : MatchAt(s, p, m)}
  IN IF found = {} THEN -1 ELSE Least(found)

\* [m.start() for m in re.finditer(re.escape(p), s)]: the matches from left
\* to right, the search resuming at the end of each match
RECURSIVE FindAllFrom(_, _, _)
FindAllFrom(s, p, o) ==
  LET m == SearchFrom(s, p, o)
  IN IF m < 0 THEN << >> ELSE <<m>> \o FindAllFrom(s, p, m + Len(p))

FindAll(s, p) == FindAllFrom(s, p, 0)

\* the elements of a sequence, as a set
Elements(s) == {s[k] : k \in 1..Len(s)}

\* p in s
Contains(s, p) == SearchFrom(s, p, 0) >= 0

\* an empty dict, and a dict present only under a condition
NoKeys == [k \in {} |-> TRUE]

Only(cond, d) == IF cond THEN d ELSE NoKeys

\* list[:n]
Take(s, n) == Slice(s, 0, n)

(***************************************************************************)
(* struct.unpack for the formats the decoder uses.  A slice of the wrong   *)
(* width makes struct.unpack raise struct.error; the callers below test    *)
(* the width first and take their exception path, so these are applied to  *)
(* slices of the right width only.                                         *)
(***************************************************************************)
\* struct.unpack('>H' / '<H', d)[0]
UnpackH(d, be) == IF be THEN d[1] * 256 + d[2] ELSE d[2] * 256 + d[1]

\* struct.unpack('>I' / '<I', d)[0], as <<high 16 bits, low 16 bits>>
UnpackI(d, be) ==
  IF be THEN <<d[1] * 256 + d[2], d[3] * 256 + d[4]>>
        ELSE <<d[4] * 256 + d[3], d[2] * 256 + d[1]>>

\* a 32-bit value compared with a small integer
U32Less(u, n) == u[1] = 0 /\ u[2] < n

\* value & 0xFFFF, kept in the 32-bit representation
Low16(u) == <<0, u[2]>>

(***************************************************************************)
(* get_tiff_type_name and get_exif_tag_name.  A name the table lacks is    *)
(* formatted from the id: Unknown(<decimal>) for a type, Unknown(<four     *)
(* upper-case hex digits>) for a tag.                                      *)
(***************************************************************************)
TiffTypes ==
  <<"BYTE", "ASCII", "SHORT", "LONG", "RATIONAL", "SBYTE", "UNDEFINED",
    "SSHORT", "SLONG", "SRATIONAL", "FLOAT", "DOUBLE">>

get_tiff_type_name(type_id) ==
  IF type_id \in 1..Len(TiffTypes)
  THEN [name |-> TiffTypes[type_id], id |-> << >>]
  ELSE [name |-> "Unknown", id |-> <<type_id>>]

ExifTagTable ==
  <<
    <<270, "ImageDescription">>, <<271, "Make">>, <<272, "Model">>,
    <<274, "Orientation">>, <<282, "XResolution">>, <<283, "YResolution">>,
    <<296, "ResolutionUnit">>, <<305, "Software">>, <<306, "DateTime">>,
    <<315, "Artist">>, <<531, "YCbCrPositioning">>,
    <<532, "ReferenceBlackWhite">>, <<33432, "Copyright">>,
    <<34665, "ExifIFDPointer">>, <<34853, "GPSInfoIFDPointer">>,
    <<33434, "ExposureTime">>, <<33437, "FNumber">>,
    <<34850, "ExposureProgram">>, <<34852, "SpectralSensitivity">>,
    <<34855, "ISOSpeedRatings">>, <<34856, "OECF">>,
    <<36864, "ExifVersion">>, <<36867, "DateTimeOriginal">>,
    <<36868, "DateTimeDigitized">>, <<37121, "ComponentsConfiguration">>,
    <<37122, "CompressedBitsPerPixel">>, <<37377, "ShutterSpeedValue">>,
    <<37378, "ApertureValue">>, <<37379, "BrightnessValue">>,
    <<37380, "ExposureBiasValue">>, <<37381, "MaxApertureValue">>,
    <<37382, "SubjectDistance">>, <<37383, "MeteringMode">>,
    <<37384, "LightSource">>, <<37385, "Flash">>, <<37386, "FocalLength">>,
    <<37396, "SubjectArea">>, <<37500, "MakerNote">>,
    <<37510, "UserComment">>, <<37520, "SubsecTime">>,
    <<37521, "SubsecTimeOriginal">>, <<37522, "SubsecTimeDigitized">>,
    <<40960, "FlashpixVersion">>, <<40961, "ColorSpace">>,
    <<40962, "PixelXDimension">>, <<40963, "PixelYDimension">>,
    <<40964, "RelatedSoundFile">>, <<40965, "InteroperabilityIFDPointer">>,
    <<41483, "FlashEnergy">>, <<41484, "SpatialFrequencyResponse">>,
    <<41486, "FocalPlaneXResolution">>, <<41487, "FocalPlaneYResolution">>,
    <<41488, "FocalPlaneResolutionUnit">>, <<41492, "SubjectLocation">>,
    <<41493, "ExposureIndex">>, <<41495, "SensingMethod">>,
    <<41728, "FileSource">>, <<41729, "SceneType">>, <<41730, "CFAPattern">>,
    <<41985, "CustomRendered">>, <<41986, "ExposureMode">>,
    <<41987, "WhiteBalance">>, <<41988, "DigitalZoomRatio">>,
    <<41989, "FocalLengthIn35mmFilm">>, <<41990, "SceneCaptureType">>,
    <<41991, "GainControl">>, <<41992, "Contrast">>, <<41993, "Saturation">>,
    <<41994, "Sharpness">>, <<41995, "DeviceSettingDescription">>,
    <<41996, "SubjectDistanceRange">>, <<42016, "ImageUniqueID">>,
    <<42032, "CameraOwnerName">>, <<42033, "BodySerialNumber">>,
    <<42034, "LensSpecification">>, <<42035, "LensMake">>,
    <<42036, "LensModel">>, <<42037, "LensSerialNumber">>
  >>

\* f"{tag_id:04X}": the four hex digits, most significant first
Hex04(n) == <<(n \div 4096) % 16, (n \div 256) % 16, (n \div 16) % 16, n % 16>>

get_exif_tag_name(tag_id) ==
  IF \E k \in 1..Len(ExifTagTable) : ExifTagTable[k][1] = tag_id
  THEN [name |-> ExifTagTable[CHOOSE k \in 1..Len(ExifTagTable) :
                                ExifTagTable[k][1] = tag_id][2],
        id |-> << >>]
  ELSE [name |-> "Unknown", id |-> Hex04(tag_id)]

(***************************************************************************)
(* parse_tiff_ifd.                                                         *)
(***************************************************************************)
MM == <<77, 77>>

II == <<73, 73>>

EntrySize == 12

\* the result of the except branch (any exception raised inside the try)
TiffException == [error |-> <<"Exception parsing TIFF structure">>]

\* the value resolved for Short and Long whatever the count
ParseEntryAnyCount(entry_data, be) ==
  LET tag == UnpackH(Slice(entry_data, 0, 2), be)
      type_id == UnpackH(Slice(entry_data, 2, 4), be)
      count == UnpackI(Slice(entry_data, 4, 8), be)
      value_offset == UnpackI(Slice(entry_data, 8, 12), be)
      entry == [tag |-> tag,
                tag_name |-> get_exif_tag_name(tag),
                type |-> get_tiff_type_name(type_id),
                count |-> count,
                value_offset |-> value_offset]
  IN IF type_id = 3
     THEN entry @@ [value |-> Low16(value_offset)]
     ELSE IF type_id = 4
     THEN entry @@ [value |-> value_offset]
     ELSE entry

\* one 12-byte record of the entry table (lines 303-324)
ParseEntry(entry_data, be) ==
  LET tag == UnpackH(Slice(entry_data, 0, 2), be)
      type_id == UnpackH(Slice(entry_data, 2, 4), be)
      count == UnpackI(Slice(entry_data, 4, 8), be)
      value_offset == UnpackI(Slice(entry_data, 8, 12), be)
      entry == [tag |-> tag,
                tag_name |-> get_exif_tag_name(tag),
                type |-> get_tiff_type_name(type_id),
                count |-> count,
                value_offset |-> value_offset]
  IN IF type_id = 3 /\ count = <<0, 1>>
     THEN entry @@ [value |-> Low16(value_offset)]
     ELSE IF type_id = 4 /\ count = <<0, 1>>
     THEN entry @@ [value |-> value_offset]
     ELSE entry

\* the loop over range(num_entries) (lines 298-324): a record that is not
\* entry_size bytes long is skipped
RECURSIVE ParseEntries(_, _, _, _, _)
ParseEntries(d, be, ifd_offset, num_entries, k) ==
  IF k >= num_entries THEN << >>
  ELSE LET entry_offset == ifd_offset + 2 + k * EntrySize
           entry_data == Slice(d, entry_offset, entry_offset + EntrySize)
           rest == ParseEntries(d, be, ifd_offset, num_entries, k + 1)
       IN IF Len(entry_data) = EntrySize
          THEN <<ParseEntry(entry_data, be)>> \o rest
          ELSE rest

\* OffsetInside without the room for the 2-byte entry count
OffsetInsideNoCount(d, ifd_offset) == U32Less(ifd_offset, Len(d))

\* line 290: the directory offset lies inside the data
OffsetInside(d, ifd_offset) == U32Less(ifd_offset, Len(d) - 2)

\* the room for the last record not asked for
TableFitsButLast(d, off, num_entries) ==
  off + 2 + (num_entries - 1) * EntrySize <= Len(d)

\* line 297: the declared table lies inside the data
TableFits(d, off, num_entries) == off + 2 + num_entries * EntrySize <= Len(d)

\* the body of the try (lines 273-326), once the header is accepted.
\* read_end is the end of the furthest slice handed to struct.unpack.
ParseDirectory(d, be) ==
  LET magic == UnpackH(Slice(d, 2, 4), be)
      ifd_offset == UnpackI(Slice(d, 4, 8), be)
      base == [header |-> Slice(d, 0, 2), magic |-> magic,
               ifd_offset |-> ifd_offset, entries |-> << >>]
  IN IF magic # 42
     THEN [ret |-> [error |-> <<"Invalid TIFF magic number: ", magic>>],
           read_end |-> 4]
     ELSE IF ~OffsetInside(d, ifd_offset)
     THEN [ret |-> base, read_end |-> 8]
     ELSE LET off == ifd_offset[2]
              num_bytes == Slice(d, off, off + 2)
          IN IF Len(num_bytes) # 2
             THEN [ret |-> TiffException, read_end |-> off + 2]
             ELSE LET num_entries == UnpackH(num_bytes, be)
                      counted == base @@ [num_entries |-> num_entries]
                  IN IF TableFits(d, off, num_entries)
                     THEN [ret |-> [counted EXCEPT !.entries =
                                      ParseEntries(d, be, off, num_entries, 0)],
                           read_end |-> Max(8, off + 2 + num_entries * EntrySize)]
                     ELSE [ret |-> counted, read_end |-> Max(8, off + 2)]

\* either order marker accepted, whatever byte order is asked for
parse_tiff_ifd_any_marker(d, be) ==
  IF Len(d) < 8
  THEN [ret |-> [error |-> <<"Insufficient data for TIFF IFD">>], read_end |-> 0]
  ELSE IF ~(Slice(d, 0, 2) = MM \/ Slice(d, 0, 2) = II)
  THEN [ret |-> [error |-> <<"Invalid TIFF header">>], read_end |-> 2]
  ELSE ParseDirectory(d, be)

\* lines 263-328, with the end of the bytes the call reads
parse_tiff_ifd_trace(d, be) ==
  IF Len(d) < 8
  THEN [ret |-> [error |-> <<"Insufficient data for TIFF IFD">>], read_end |-> 0]
  ELSE IF ~((Slice(d, 0, 2) = MM /\ be) \/ (Slice(d, 0, 2) = II /\ ~be))
  THEN [ret |-> [error |-> <<"Invalid TIFF header">>], read_end |-> 2]
  ELSE ParseDirectory(d, be)

parse_tiff_ifd(d, be) == parse_tiff_ifd_trace(d, be).ret

(***************************************************************************)
(* Directories handed to parse_tiff_ifd: a directory description is        *)
(* written out as TIFF bytes in its byte order (a Short value left-        *)
(* justified in the 4-byte value field, a Long filling it), and the call   *)
(* gets a prefix of those bytes.                                           *)
(***************************************************************************)
\* struct.pack('>H' / '<H', v)
PackH(v, be) == IF be THEN <<v \div 256, v % 256>> ELSE <<v % 256, v \div 256>>

\* struct.pack('>I' / '<I', u) of a 32-bit value <<high, low>>
PackI(u, be) == IF be THEN PackH(u[1], be) \o PackH(u[2], be)
                      ELSE PackH(u[2], be) \o PackH(u[1], be)

\* tag, type, count and value of the entries written into directories
EntryPool ==
  { [tag |-> 274,   type |-> 3, count |-> 1, short |-> TRUE,  v |-> <<0, 6>>],
    [tag |-> 34855, type |-> 3, count |-> 1, short |-> TRUE,  v |-> <<0, 356>>],
    [tag |-> 40962, type |-> 4, count |-> 1, short |-> FALSE, v |-> <<32769, 515>>],
    [tag |-> 271,   type |-> 2, count |-> 6, short |-> FALSE, v |-> <<0, 38>>],
    [tag |-> 1,     type |-> 9, count |-> 1, short |-> FALSE, v |-> <<0, 9>>] }

EncodeEntry(e, be) ==
  PackH(e.tag, be) \o PackH(e.type, be) \o PackI(<<0, e.count>>, be)
    \o (IF e.short THEN PackH(e.v[2], be) \o <<0, 0>> ELSE PackI(e.v, be))

RECURSIVE EncodeEntries(_, _)
EncodeEntries(es, be) ==
  IF es = << >> THEN << >>
  ELSE EncodeEntry(Head(es), be) \o EncodeEntries(Tail(es), be)

Zeros(n) == [k \in 1..n |-> 0]

\* marker, magic 42, directory offset 8 + gap, gap filler, entry count,
\* entries, trailing payload bytes
EncodeDir(d) ==
  (IF d.be THEN MM ELSE II) \o PackH(42, d.be) \o PackI(<<0, 8 + d.gap>>, d.be)
    \o Zeros(d.gap) \o PackH(Len(d.entries), d.be)
    \o EncodeEntries(d.entries, d.be) \o Zeros(d.tail)

EntryLists == UNION { [1..n -> EntryPool] : n \in 0..MaxEntries }

Dirs == [be : BOOLEAN, entries : EntryLists, gap : {0, 2}, tail : {0, 3}]

\* offset of the end of the declared entry table in EncodeDir(d)
TableEnd(d) == 8 + d.gap + 2 + Len(d.entries) * EntrySize

NoCall == [none |-> TRUE]

InitIfd ==
  /\ pc = "ifd_call"
  /\ dir \in Dirs
  /\ \E n \in 0..Len(EncodeDir(dir)) : data = Slice(EncodeDir(dir), 0, n)
  /\ big_endian \in BOOLEAN
  /\ tiff = NoCall
  /\ input = NoCall /\ cleaned_str = << >> /\ i = 0 /\ cleaned_bytes = << >>
  /\ result = NoCall /\ clean = NoCall
  /\ earlier = << >>

\* a direct call parse_tiff_ifd(data, big_endian)
CallParseTiffIfd ==
  /\ pc = "ifd_call"
  /\ tiff' = parse_tiff_ifd_trace(data, big_endian)
  /\ pc' = "ifd_done"
  /\ UNCHANGED <<input, cleaned_str, i, cleaned_bytes, result, clean,
                 dir, data, big_endian, earlier>>

NextIfd == CallParseTiffIfd

SpecIfd == InitIfd /\ [][NextIfd]_vars

(***************************************************************************)
(* parse_tiff_ifd on buffers that need not be a valid directory: any order  *)
(* marker, a wrong magic, a directory offset inside, at the end of or       *)
(* beyond the buffer, a count larger than the table, cut at any length.     *)
(***************************************************************************)
MaxTiffEntries == 1

\* entries with and without a literal value: Short and Long with count 1,
\* Short with count 2, Long with count 0, Rational
TiffEntryPool ==
  { [tag |-> 274,   type |-> 3, count |-> 1, short |-> TRUE,  v |-> <<0, 6>>],
    [tag |-> 40962, type |-> 4, count |-> 1, short |-> FALSE, v |-> <<32769, 515>>],
    [tag |-> 258,   type |-> 3, count |-> 2, short |-> FALSE, v |-> <<8, 8>>],
    [tag |-> 513,   type |-> 4, count |-> 0, short |-> FALSE, v |-> <<0, 7>>],
    [tag |-> 282,   type |-> 5, count |-> 1, short |-> FALSE, v |-> <<0, 38>>] }

\* a buffer written field by field in byte order be; the count field holds
\* the number of entries written plus extra
TiffImage(marker, be, magic, offset, entries, extra) ==
  marker \o PackH(magic, be) \o PackI(offset, be)
    \o PackH(Len(entries) + extra, be) \o EncodeEntries(entries, be)

\* the markers MM, II and MI, the magic numbers 42 and 43, the directory
\* offsets at the marker, after the header, one byte on and 65544
TiffImages ==
  { TiffImage(marker, be, magic, offset, entries, extra) :
      marker \in {MM, II, <<77, 73>>}, be \in BOOLEAN, magic \in {42, 43},
      offset \in {<<0, 0>>, <<0, 8>>, <<0, 9>>, <<1, 8>>},
      entries \in UNION { [1..n -> TiffEntryPool] : n \in 0..MaxTiffEntries },
      extra \in {0, 1} }

InitTiff ==
  /\ pc = "ifd_call"
  /\ \E image \in TiffImages :
       \E n \in 0..Len(image) : data = Slice(image, 0, n)
  /\ big_endian \in BOOLEAN
  /\ dir = NoCall /\ tiff = NoCall
  /\ input = NoCall /\ cleaned_str = << >> /\ i = 0 /\ cleaned_bytes = << >>
  /\ result = NoCall /\ clean = NoCall
  /\ earlier = << >>

SpecTiff == InitTiff /\ [][NextIfd]_vars

(***************************************************************************)
(* The byte normalizer: lines 18-53 of decode_apple_makernote.             *)
(***************************************************************************)
Quote == 34

Apostrophe == 39

Percent == 37

Backslash == 92

LetterB == 98

LetterX == 120

\* line 19-23: bytes.decode('latin1') maps every byte to the code point of
\* the same number and cannot fail; text is taken as it is
AsText(inp) == inp.chars

\* the markers b"..." left in place
StripQuotesNoBytesDouble(s) ==
  IF StartsWith(s, <<Quote>>) /\ EndsWith(s, <<Quote>>)
  THEN Slice(s, 1, Len(s) - 1)
  ELSE IF StartsWith(s, <<LetterB, Apostrophe>>) /\ EndsWith(s, <<Apostrophe>>)
  THEN Slice(s, 2, Len(s) - 1)
  ELSE s

\* lines 26-31: one pair of surrounding quote markers is removed
StripQuotes(s) ==
  IF StartsWith(s, <<Quote>>) /\ EndsWith(s, <<Quote>>)
  THEN Slice(s, 1, Len(s) - 1)
  ELSE IF StartsWith(s, <<LetterB, Apostrophe>>) /\ EndsWith(s, <<Apostrophe>>)
  THEN Slice(s, 2, Len(s) - 1)
  ELSE IF StartsWith(s, <<LetterB, Quote>>) /\ EndsWith(s, <<Quote>>)
  THEN Slice(s, 2, Len(s) - 1)
  ELSE s

\* line 34: str.encode('latin1') raises UnicodeEncodeError on a code point
\* above 255
EncodeRaises(s) == \E k \in 1..Len(s) : s[k] > 255

\* line 35: bytes.replace(b'\\x', b'%'): the occurrences of the two bytes from
\* left to right, not overlapping, each replaced by the one byte
ReplaceEscapes(b) ==
  LET starts == Elements(FindAll(b, <<Backslash, LetterX>>))
      kept == SelectSeq(Range(0, Len(b)), LAMBDA k : (k - 1) \notin starts)
  IN [j \in 1..Len(kept) |->
        IF kept[j] \in starts THEN Percent ELSE b[kept[j] + 1]]

IsDigit(c) == c \in 48..57

IsUpperHex(c) == c \in 65..70

IsLowerHex(c) == c \in 97..102

IsHexDigit(c) == IsDigit(c) \/ IsUpperHex(c) \/ IsLowerHex(c)

HexDigitValue(c) ==
  IF IsDigit(c) THEN c - 48 ELSE IF IsUpperHex(c) THEN c - 55 ELSE c - 87

\* the characters int() strips from both ends of a bytes literal
IsIntSpace(c) == c \in {9, 10, 11, 12, 13, 32}

NoValue == -1000

\* int(two_bytes, 16): two hex digits, or one hex digit with a white space
\* before or after it or a sign before it; NoValue stands for ValueError
IntBase16(c1, c2) ==
  IF IsHexDigit(c1) /\ IsHexDigit(c2) THEN 16 * HexDigitValue(c1) + HexDigitValue(c2)
  ELSE IF IsIntSpace(c1) /\ IsHexDigit(c2) THEN HexDigitValue(c2)
  ELSE IF IsHexDigit(c1) /\ IsIntSpace(c2) THEN HexDigitValue(c1)
  ELSE IF c1 = 43 /\ IsHexDigit(c2) THEN HexDigitValue(c2)
  ELSE IF c1 = 45 /\ IsHexDigit(c2) THEN 0 - HexDigitValue(c2)
  ELSE NoValue

\* lines 41-47: the try succeeds when int() parses the two bytes and
\* bytes([byte_val]) accepts the value (0..255); both failures are ValueError
EscapeValue(cs, k) ==
  LET v == IntBase16(cs[k + 2], cs[k + 3])
  IN IF v \in 0..255 THEN v ELSE NoValue

\* NormalizeStep with an except branch that forgets to advance the index
NormalizeStepStuck(cs, k) ==
  IF Slice(cs, k, k + 1) = <<Percent>> /\ k + 3 <= Len(cs)
       /\ EscapeValue(cs, k) = NoValue
  THEN [out |-> Slice(cs, k, k + 1), next |-> k]
  ELSE IF Slice(cs, k, k + 1) = <<Percent>> /\ k + 3 <= Len(cs)
  THEN [out |-> <<EscapeValue(cs, k)>>, next |-> k + 3]
  ELSE [out |-> Slice(cs, k, k + 1), next |-> k + 1]

\* one iteration of the while loop (lines 38-53) at index k: the bytes it
\* appends to cleaned_bytes and the next index
NormalizeStep(cs, k) ==
  IF Slice(cs, k, k + 1) = <<Percent>>
  THEN IF k + 3 <= Len(cs)
       THEN IF EscapeValue(cs, k) # NoValue
            THEN [out |-> <<EscapeValue(cs, k)>>, next |-> k + 3]
            ELSE [out |-> Slice(cs, k, k + 1), next |-> k + 1]
       ELSE [out |-> Slice(cs, k, k + 1), next |-> k + 1]
  ELSE [out |-> Slice(cs, k, k + 1), next |-> k + 1]

\* lines 26-35: the byte string the loop runs over
CleanedStr(inp) == ReplaceEscapes(StripQuotes(AsText(inp)))

(***************************************************************************)
(* The normalizer run one loop iteration at a time, on every short text     *)
(* over an alphabet that holds the characters the normalizer treats         *)
(* specially.                                                               *)
(***************************************************************************)
MaxText == 4

ByteAlphabet == {Percent, Backslash, LetterX, 52, 71, Quote}

SeqsUpTo(S, n) == UNION { [1..m -> S] : m \in 0..n }

TextInputs ==
  { [kind |-> "bytes", chars |-> cs] : cs \in SeqsUpTo(ByteAlphabet, MaxText) }
    \cup
  { [kind |-> "str", chars |-> cs] : cs \in SeqsUpTo(ByteAlphabet \cup {256}, MaxText) }

\* the buffer of an earlier call kept instead of a fresh one
NormBeginKeepsBuffer ==
  /\ pc = "norm_begin"
  /\ IF EncodeRaises(StripQuotes(AsText(input)))
     THEN pc' = "raised" /\ UNCHANGED cleaned_str
     ELSE pc' = "norm_loop" /\ cleaned_str' = CleanedStr(input)
  /\ i' = 0
  /\ UNCHANGED <<input, cleaned_bytes, result, clean, dir, data, big_endian,
                 tiff, earlier>>

\* lines 18-37: up to the first test of the while loop
NormBegin ==
  /\ pc = "norm_begin"
  /\ IF EncodeRaises(StripQuotes(AsText(input)))
     THEN pc' = "raised" /\ UNCHANGED cleaned_str
     ELSE pc' = "norm_loop" /\ cleaned_str' = CleanedStr(input)
  /\ i' = 0
  /\ cleaned_bytes' = << >>
  /\ UNCHANGED <<input, result, clean, dir, data, big_endian, tiff, earlier>>

\* one iteration of the while loop
NormStep ==
  /\ pc = "norm_loop"
  /\ i < Len(cleaned_str)
  /\ cleaned_bytes' = cleaned_bytes \o NormalizeStep(cleaned_str, i).out
  /\ i' = NormalizeStep(cleaned_str, i).next
  /\ UNCHANGED <<pc, input, cleaned_str, result, clean, dir, data, big_endian,
                 tiff, earlier>>

\* the loop test fails: lines 56-60 start the result
NormEnd ==
  /\ pc = "norm_loop"
  /\ ~(i < Len(cleaned_str))
  /\ pc' = "scan"
  /\ result' = [type |-> "Apple iOS MakerNote",
                raw_data_length |-> Len(cleaned_bytes),
                identified_structures |-> << >>]
  /\ UNCHANGED <<input, cleaned_str, i, cleaned_bytes, clean, dir, data,
                 big_endian, tiff, earlier>>

(***************************************************************************)
(* The header and the nested directory: lines 62-78.                       *)
(***************************************************************************)
\* b'Apple iOS\x00\x00'
HeaderSignature == <<65, 112, 112, 108, 101, 32, 105, 79, 83, 0, 0>>

\* the last occurrence of the header signature taken instead of the first
HeaderFieldsLastOccurrence(cb) ==
  LET found == {m \in 0..(Len(cb) - Len(HeaderSignature)) : MatchAt(cb, HeaderSignature, m)}
      start == IF found = {} THEN -1 ELSE Greatest(found)
      tiff_pos == start + Len(HeaderSignature)
      tiff_header == Slice(cb, tiff_pos, tiff_pos + 2)
  IN IF start < 0 THEN NoKeys
     ELSE [header |-> "Apple iOS", header_position |-> start]
          @@ Only(tiff_pos + 2 <= Len(cb) /\ tiff_header = MM,
                  [tiff_byte_order |-> "big-endian (Motorola)",
                   tiff_structure |-> parse_tiff_ifd(SliceFrom(cb, tiff_pos), TRUE)])
          @@ Only(tiff_pos + 2 <= Len(cb) /\ tiff_header = II,
                  [tiff_byte_order |-> "little-endian (Intel)",
                   tiff_structure |-> parse_tiff_ifd(SliceFrom(cb, tiff_pos), FALSE)])

HeaderFields(cb) ==
  LET start == SearchFrom(cb, HeaderSignature, 0)
      tiff_pos == start + Len(HeaderSignature)
      tiff_header == Slice(cb, tiff_pos, tiff_pos + 2)
  IN IF start < 0 THEN NoKeys
     ELSE [header |-> "Apple iOS", header_position |-> start]
          @@ Only(tiff_pos + 2 <= Len(cb) /\ tiff_header = MM,
                  [tiff_byte_order |-> "big-endian (Motorola)",
                   tiff_structure |-> parse_tiff_ifd(SliceFrom(cb, tiff_pos), TRUE)])
          @@ Only(tiff_pos + 2 <= Len(cb) /\ tiff_header = II,
                  [tiff_byte_order |-> "little-endian (Intel)",
                   tiff_structure |-> parse_tiff_ifd(SliceFrom(cb, tiff_pos), FALSE)])

(***************************************************************************)
(* extract_readable_strings: lines 432-448.                                *)
(***************************************************************************)
IsPrintable(c) == 32 <= c /\ c <= 126

\* The loop collects the maximal runs of printable bytes: a run of at least
\* 3 bytes is appended to the result, followed by a space when a byte that
\* is not printable ends it and by nothing when the data ends it; shorter
\* runs are dropped.

\* the end (0-based, exclusive) of the run of printable bytes from offset o
PrintableRunEnd(d, o) ==
  Least({e \in o..Len(d) : e = Len(d) \/ ~IsPrintable(d[e + 1])})

\* the offsets at which a run of printable bytes of length >= 3 starts
KeptRunStarts(d) ==
  SelectSeq(Range(0, Len(d)),
            LAMBDA o : /\ IsPrintable(d[o + 1])
                       /\ (o = 0 \/ ~IsPrintable(d[o]))
                       /\ PrintableRunEnd(d, o) - o >= 3)

\* what the loop appends for the run starting at offset o
RunText(d, o) ==
  Slice(d, o, PrintableRunEnd(d, o))
    \o (IF PrintableRunEnd(d, o) < Len(d) THEN <<32>> ELSE << >>)

\* str.strip() of a string of printable ASCII: the spaces at both ends go
Strip(s) ==
  LET solid == {k \in 1..Len(s) : s[k] # 32}
  IN IF solid = {} THEN << >> ELSE Slice(s, Least(solid) - 1, Greatest(solid))

extract_readable_strings(d) ==
  LET starts == KeptRunStarts(d)
  IN Strip(ConcatAll([j \in 1..Len(starts) |-> RunText(d, starts[j])]))

(***************************************************************************)
(* Timestamps: lines 110-135.  A value is seconds after 2001-01-01.        *)
(***************************************************************************)
IsLeap(y) == (y % 4 = 0 /\ y % 100 # 0) \/ y % 400 = 0

DaysInYear(y) == IF IsLeap(y) THEN 366 ELSE 365

DaysInMonth(y, m) ==
  IF m = 2 THEN (IF IsLeap(y) THEN 29 ELSE 28)
  ELSE IF m \in {4, 6, 9, 11} THEN 30 ELSE 31

\* the year and the day of the year (0-based) d days after 1 January of y
RECURSIVE YearOfDay(_, _)
YearOfDay(y, d) ==
  IF d < DaysInYear(y) THEN <<y, d>> ELSE YearOfDay(y + 1, d - DaysInYear(y))

\* the month and the day of the month (1-based) of day d (0-based) of year y
RECURSIVE MonthOfDay(_, _, _)
MonthOfDay(y, m, d) ==
  IF d < DaysInMonth(y, m) THEN <<m, d + 1>>
  ELSE MonthOfDay(y, m + 1, d - DaysInMonth(y, m))

\* datetime(2001, 1, 1) + timedelta(seconds=val)
AppleDateTime(val) ==
  LET yd == YearOfDay(2001, val \div 86400)
      md == MonthOfDay(yd[1], 1, yd[2])
      secs == val % 86400
  IN [year |-> yd[1], month |-> md[1], day |-> md[2],
      hour |-> secs \div 3600, minute |-> (secs % 3600) \div 60,
      second |-> secs % 60]

\* two and four decimal digits, zero padded, as characters
Digits2(n) == <<48 + ((n \div 10) % 10), 48 + (n % 10)>>

Digits4(n) == Digits2(n \div 100) \o Digits2(n % 100)

\* strftime("%Y-%m-%d %H:%M:%S")
FormatDateTime(t) ==
  Digits4(t.year) \o <<45>> \o Digits2(t.month) \o <<45>> \o Digits2(t.day)
    \o <<32>> \o Digits2(t.hour) \o <<58>> \o Digits2(t.minute) \o <<58>>
    \o Digits2(t.second)

\* line 122, on a 32-bit value <<high, low>>: 300000000 < val < 800000000
InSecondsWindow(u) ==
  u[1] < 32768 /\ 300000000 < u[1] * 65536 + u[2]
               /\ u[1] * 65536 + u[2] < 800000000

\* lines 122-125: the value read is kept as a candidate
IsTimestamp(u) ==
  /\ InSecondsWindow(u)
  /\ 2010 < AppleDateTime(u[1] * 65536 + u[2]).year
  /\ AppleDateTime(u[1] * 65536 + u[2]).year < 2030

\* lines 126-130
TimestampEntry(u, k) ==
  [position |-> k,
   timestamp_value |-> u[1] * 65536 + u[2],
   date_time |-> FormatDateTime(AppleDateTime(u[1] * 65536 + u[2]))]

\* lines 113-132: the 4-byte values read, in the order the loops read them:
\* the offsets from pos up to (not including) stop that leave 4 bytes, the
\* big-endian reading of each before the little-endian one
TimestampReads(cb, pos, stop) ==
  LET offsets == SelectSeq(Range(pos, stop), LAMBDA k : k + 4 <= Len(cb))
  IN [j \in 1..(2 * Len(offsets)) |->
        [k |-> offsets[(j + 1) \div 2],
         val |-> UnpackI(Slice(cb, offsets[(j + 1) \div 2],
                               offsets[(j + 1) \div 2] + 4), j % 2 = 1)]]

TimestampCandidates(cb, pos, stop) ==
  LET kept == SelectSeq(TimestampReads(cb, pos, stop), LAMBDA r : IsTimestamp(r.val))
  IN [j \in 1..Len(kept) |-> TimestampEntry(kept[j].val, kept[j].k)]

(***************************************************************************)
(* Property lists: lines 80-152.                                           *)
(***************************************************************************)
\* b'bplist00'
PlistSignature == <<98, 112, 108, 105, 115, 116, 48, 48>>

\* [A-Za-z0-9]
AlnumBytes == (48..57) \cup (65..90) \cup (97..122)

\* \s of a bytes pattern
ReSpaceBytes == {9, 10, 11, 12, 13, 32}

\* the end of the longest run of bytes of the set S starting at offset o
RunEnd(s, o, S) == Least({e \in o..Len(s) : e = Len(s) \/ s[e + 1] \notin S})

\* the key pattern ([A-Za-z0-9]+)(?:\x00+|\s+)bplist00 tried at offset o:
\* the end of group 1, or -1.  Whatever follows a shorter run is again a
\* byte of the run, so only the longest run of each part can match.
KeyMatchAt(w, o) ==
  LET e == RunEnd(w, o, AlnumBytes)
      z == RunEnd(w, e, {0})
      b == RunEnd(w, e, ReSpaceBytes)
  IN IF e = o THEN -1
     ELSE IF z > e /\ MatchAt(w, PlistSignature, z) THEN e
     ELSE IF b > e /\ MatchAt(w, PlistSignature, b) THEN e
     ELSE -1

\* key_pattern.search(w): group 1 of the leftmost match, or << >>
KeySearch(w) ==
  LET found == {o \in 0..(Len(w) - 1) : KeyMatchAt(w, o) >= 0}
  IN IF found = {} THEN << >>
     ELSE Slice(w, Least(found), KeyMatchAt(w, Least(found)))

\* bytes.lower()
Lower(s) == [k \in 1..Len(s) |-> IF s[k] \in 65..90 THEN s[k] + 32 ELSE s[k]]

\* time_keywords (line 104), each with its bytes
TimeKeywords ==
  << <<"time", <<116, 105, 109, 101>> >>,
     <<"date", <<100, 97, 116, 101>> >>,
     <<"epoch", <<101, 112, 111, 99, 104>> >>,
     <<"scale", <<115, 99, 97, 108, 101>> >>,
     <<"timestamp", <<116, 105, 109, 101, 115, 116, 97, 109, 112>> >> >>

RECURSIVE FoundTimeKeywords(_, _)
FoundTimeKeywords(after_bytes, k) ==
  IF k > Len(TimeKeywords) THEN << >>
  ELSE (IF Contains(Lower(after_bytes), TimeKeywords[k][2])
        THEN <<TimeKeywords[k][1]>> ELSE << >>)
       \o FoundTimeKeywords(after_bytes, k + 1)

\* the preview taken from all of after_bytes
PlistStructureWholeWindow(cb, pos) ==
  LET after_bytes == Slice(cb, pos, Min(Len(cb), pos + 100))
      plist_key == KeySearch(Slice(cb, Max(0, pos - 30), pos + 8))
      found_time_keywords == FoundTimeKeywords(after_bytes, 1)
      timestamp_candidates ==
        TimestampCandidates(cb, pos, Min(Len(cb), pos + 100))
      timestamp_data ==
        Only(timestamp_candidates # << >>,
             [candidates |-> Take(timestamp_candidates, 3)])
        @@ Only(found_time_keywords # << >>, [keywords |-> found_time_keywords])
  IN [type |-> "Binary plist",
      position |-> pos,
      content_preview |-> extract_readable_strings(after_bytes)]
     @@ Only(plist_key # << >>, [potential_key |-> plist_key])
     @@ Only(DOMAIN timestamp_data # {}, [timestamp_data |-> timestamp_data])

\* the structure recorded for the property list at offset pos (lines 86-152)
PlistStructure(cb, pos) ==
  LET after_bytes == Slice(cb, pos, Min(Len(cb), pos + 100))
      plist_key == KeySearch(Slice(cb, Max(0, pos - 30), pos + 8))
      found_time_keywords == FoundTimeKeywords(after_bytes, 1)
      timestamp_candidates ==
        TimestampCandidates(cb, pos, Min(Len(cb), pos + 100))
      timestamp_data ==
        Only(timestamp_candidates # << >>,
             [candidates |-> Take(timestamp_candidates, 3)])
        @@ Only(found_time_keywords # << >>, [keywords |-> found_time_keywords])
  IN [type |-> "Binary plist",
      position |-> pos,
      content_preview |-> extract_readable_strings(Take(after_bytes, 50))]
     @@ Only(plist_key # << >>, [potential_key |-> plist_key])
     @@ Only(DOMAIN timestamp_data # {}, [timestamp_data |-> timestamp_data])

PlistFields(cb) ==
  LET plist_positions == FindAll(cb, PlistSignature)
  IN [plist_count |-> Len(plist_positions),
      identified_structures |->
        [k \in 1..Len(plist_positions) |-> PlistStructure(cb, plist_positions[k])]]


(***************************************************************************)
(* Device identifiers: lines 154-161.                                      *)
(***************************************************************************)
UuidLength == 36

\* [0-9A-F]
UpperHexBytes == (48..57) \cup (65..70)

\* the offsets of the dashes in 8-4-4-4-12
DashOffsets == {8, 13, 18, 23}

\* the UUID pattern matches at offset o
UuidAt(s, o) ==
  /\ o + UuidLength <= Len(s)
  /\ \A k \in 0..(UuidLength - 1) :
       IF k \in DashOffsets THEN s[o + k + 1] = 45
       ELSE s[o + k + 1] \in UpperHexBytes

\* list(re.finditer(uuid_pattern, s)): the starts of the matches from left
\* to right, the search resuming at the end of each match
RECURSIVE UuidMatchesFrom(_, _)
UuidMatchesFrom(s, o) ==
  LET found == {m \in o..(Len(s) - UuidLength) : UuidAt(s, m)}
  IN IF found = {} THEN << >>
     ELSE <<Least(found)>> \o UuidMatchesFrom(s, Least(found) + UuidLength)

\* the offset of the first UUID not recorded
UuidFieldsNoPosition(cb) ==
  LET uuid_matches == UuidMatchesFrom(cb, 0)
      Group1(o) == Slice(cb, o, o + UuidLength)
  IN IF uuid_matches = << >> THEN NoKeys
     ELSE [device_uuid |-> Group1(uuid_matches[1])]
          @@ Only(Len(uuid_matches) > 1,
                  [additional_uuids |->
                     [k \in 1..(Len(uuid_matches) - 1) |-> Group1(uuid_matches[k + 1])]])

\* the first match listed among the additional ones as well
UuidFieldsFirstRepeated(cb) ==
  LET uuid_matches == UuidMatchesFrom(cb, 0)
      Group1(o) == Slice(cb, o, o + UuidLength)
  IN IF uuid_matches = << >> THEN NoKeys
     ELSE [device_uuid |-> Group1(uuid_matches[1]),
           uuid_position |-> uuid_matches[1]]
          @@ Only(Len(uuid_matches) > 1,
                  [additional_uuids |->
                     [k \in 1..Len(uuid_matches) |-> Group1(uuid_matches[k])]])

UuidFields(cb) ==
  LET uuid_matches == UuidMatchesFrom(cb, 0)
      Group1(o) == Slice(cb, o, o + UuidLength)
  IN IF uuid_matches = << >> THEN NoKeys
     ELSE [device_uuid |-> Group1(uuid_matches[1]),
           uuid_position |-> uuid_matches[1]]
          @@ Only(Len(uuid_matches) > 1,
                  [additional_uuids |->
                     [k \in 1..(Len(uuid_matches) - 1) |-> Group1(uuid_matches[k + 1])]])

(***************************************************************************)
(* Camera settings: lines 163-227.                                         *)
(***************************************************************************)
\* iso_values (line 167)
IsoValues == <<100, 200, 400, 800, 1600, 3200, 6400>>

\* aperture_values (line 191) and focal_length_values (line 211), in tenths
ApertureValues == <<18, 20, 22, 28, 40, 56, 80>>

FocalLengthValues == <<40, 60, 75, 90, 120, 140>>

RECURSIVE Pow2(_)
Pow2(n) == IF n = 0 THEN 1 ELSE 2 * Pow2(n - 1)

\* the binary exponent e of t/10 >= 1: 2^e <= t/10 < 2^(e+1)
RECURSIVE BinaryExponent(_, _)
BinaryExponent(t, e) ==
  IF t < 10 * Pow2(e + 1) THEN e ELSE BinaryExponent(t, e + 1)

\* the 24-bit significand of t/10 as an IEEE-754 single: t/10 * 2^(23-e)
\* rounded to the nearest integer, a tie to the even one
Significand(t) ==
  LET n == t * Pow2(23 - BinaryExponent(t, 0))
      q == n \div 10
      r == n % 10
  IN IF r > 5 \/ (r = 5 /\ q % 2 = 1) THEN q + 1 ELSE q

\* struct.pack('>f', t/10) for a table value t/10 >= 1
PackFloatBE(t) ==
  LET exp == 127 + BinaryExponent(t, 0)
      frac == Significand(t) - Pow2(23)
  IN <<exp \div 2, (exp % 2) * 128 + (frac \div 65536),
       (frac \div 256) % 256, frac % 256>>

Reverse(s) == [k \in 1..Len(s) |-> s[Len(s) + 1 - k]]

\* struct.pack('<f', t/10)
PackFloatLE(t) == Reverse(PackFloatBE(t))

\* a match counted behind any byte
IsoQualifiesBehindAny(cb, pos) == pos > 0

\* lines 179-183: a match of an ISO pattern counts only behind a zero byte
IsoQualifies(cb, pos) == pos > 0 /\ cb[pos] = 0

\* the matches of one pattern turned into candidates of one value
Candidates(value, positions) ==
  [k \in 1..Len(positions) |-> [value |-> value, position |-> positions[k]]]

\* the matches whose own first byte is zero
IsoFilterZeroAt(cb, positions) ==
  SelectSeq(positions, LAMBDA pos : pos > 0 /\ cb[pos + 1] = 0)

\* the qualifying positions among the matches of one ISO pattern
IsoFilter(cb, positions) == SelectSeq(positions, LAMBDA pos : IsoQualifies(cb, pos))

\* lines 170-183: the table in order, big-endian before little-endian
RECURSIVE IsoMatches(_, _)
IsoMatches(cb, k) ==
  IF k > Len(IsoValues) THEN << >>
  ELSE Candidates(IsoValues[k], IsoFilter(cb, FindAll(cb, PackH(IsoValues[k], TRUE))))
       \o Candidates(IsoValues[k], IsoFilter(cb, FindAll(cb, PackH(IsoValues[k], FALSE))))
       \o IsoMatches(cb, k + 1)

\* lines 197-198 and 217-218: the patterns of a table of floats, the
\* big-endian and the little-endian encoding of each value
FloatPatterns(values) ==
  [k \in DOMAIN values |->
     [be |-> PackFloatBE(values[k]), le |-> PackFloatLE(values[k])]]

AperturePatterns == FloatPatterns(ApertureValues)

FocalLengthPatterns == FloatPatterns(FocalLengthValues)

\* lines 194-205 and 214-224: the table in order, big-endian before
\* little-endian, every match kept
RECURSIVE FloatMatches(_, _, _, _)
FloatMatches(cb, values, patterns, k) ==
  IF k > Len(values) THEN << >>
  ELSE Candidates(values[k], FindAll(cb, patterns[k].be))
       \o Candidates(values[k], FindAll(cb, patterns[k].le))
       \o FloatMatches(cb, values, patterns, k + 1)

CameraFields(cb) ==
  LET iso_matches == IsoMatches(cb, 1)
      aperture_matches == FloatMatches(cb, ApertureValues, AperturePatterns, 1)
      focal_length_matches == FloatMatches(cb, FocalLengthValues, FocalLengthPatterns, 1)
  IN Only(iso_matches # << >>, [potential_iso_values |-> iso_matches])
     @@ Only(aperture_matches # << >>,
             [potential_aperture_values |-> aperture_matches])
     @@ Only(focal_length_matches # << >>,
             [potential_focal_length_values |-> focal_length_matches])

(***************************************************************************)
(* Coordinates: lines 229-248.  A float is kept as the fields of its       *)
(* IEEE-754 single encoding: value = (-1)^neg * (2^23 + frac) * 2^(exp-150)*)
(* for 0 < exp < 255, frac * 2^-149 for exp = 0, infinity or NaN for 255.  *)
(***************************************************************************)
\* struct.unpack('>f', d)[0]
UnpackFloatBE(d) ==
  [neg |-> d[1] >= 128,
   exp |-> (d[1] % 128) * 2 + (d[2] \div 128),
   frac |-> (d[2] % 128) * 65536 + d[3] * 256 + d[4]]

\* |f| <= n for an integer n in 1..255; a comparison with NaN is false
MagnitudeAtMost(f, n) ==
  IF f.exp = 255 THEN FALSE
  ELSE IF f.exp = 0 THEN TRUE
  ELSE IF f.exp >= 150 THEN FALSE
  ELSE IF 150 - f.exp >= 24 THEN TRUE
  ELSE Pow2(23) + f.frac <= n * Pow2(150 - f.exp)

\* line 238
CoordinateQualifies(val1, val2) == MagnitudeAtMost(val1, 90) /\ MagnitudeAtMost(val2, 180)

\* line 232: the offsets the loop visits, range(len(cleaned_bytes) - 8)
CoordinateScanStop(cb) == Len(cb) - 8

\* the two floats read at offset k (lines 234-235)
CoordinatePair(cb, k) ==
  <<UnpackFloatBE(Slice(cb, k, k + 4)), UnpackFloatBE(Slice(cb, k + 4, k + 8))>>

\* lines 232-243: the qualifying offsets in the order of the loop
CoordMatches(cb) ==
  LET kept == SelectSeq(Range(0, CoordinateScanStop(cb)),
                        LAMBDA k : CoordinateQualifies(CoordinatePair(cb, k)[1],
                                                       CoordinatePair(cb, k)[2]))
  IN [j \in 1..Len(kept) |->
        [position |-> kept[j],
         values |-> CoordinatePair(cb, kept[j]),
         interpretation |-> <<"Possible coordinates: ">> \o CoordinatePair(cb, kept[j])]]

CoordinateFields(cb) ==
  LET coord_matches == CoordMatches(cb)
  IN Only(coord_matches # << >>, [potential_coordinates |-> Take(coord_matches, 3)])

(***************************************************************************)
(* decode_apple_makernote after the normalizer (lines 55-250) and          *)
(* create_clean_json (lines 450-544).                                      *)
(***************************************************************************)
\* the scanners skipped when the directory parse returned an error
DecodeBytesStopOnError(cb) ==
  LET head == [type |-> "Apple iOS MakerNote", raw_data_length |-> Len(cb)]
                @@ HeaderFields(cb)
  IN IF "tiff_structure" \in DOMAIN head /\ "error" \in DOMAIN head.tiff_structure
     THEN head @@ [plist_count |-> 0, identified_structures |-> << >>]
     ELSE head @@ PlistFields(cb) @@ UuidFields(cb)
            @@ CameraFields(cb) @@ CoordinateFields(cb)

DecodeBytes(cb) ==
  [type |-> "Apple iOS MakerNote", raw_data_length |-> Len(cb)]
    @@ HeaderFields(cb) @@ PlistFields(cb) @@ UuidFields(cb)
    @@ CameraFields(cb) @@ CoordinateFields(cb)

Has(d, key) == key \in DOMAIN d

\* every entry mapped, the value field standing in for a missing value
RECURSIVE ExifTagsAllEntries(_, _)
ExifTagsAllEntries(entries, k) ==
  IF k = 0 THEN NoKeys
  ELSE LET entry == entries[k]
           before == ExifTagsAllEntries(entries, k - 1)
       IN IF Has(entry, "value")
          THEN (entry.tag_name :> entry.value) @@ before
          ELSE (entry.tag_name :> entry.value_offset) @@ before

\* the map in which the first entry of a tag name keeps its value
RECURSIVE ExifTagsFirstKept(_, _)
ExifTagsFirstKept(entries, k) ==
  IF k = 0 THEN NoKeys
  ELSE LET entry == entries[k]
           before == ExifTagsFirstKept(entries, k - 1)
       IN IF Has(entry, "value")
          THEN before @@ (entry.tag_name :> entry.value)
          ELSE before

\* lines 478-486: the map built by the loop over the entries, a later entry
\* of the same tag name replacing an earlier one
RECURSIVE ExifTags(_, _)
ExifTags(entries, k) ==
  IF k = 0 THEN NoKeys
  ELSE LET entry == entries[k]
           before == ExifTags(entries, k - 1)
       IN IF Has(entry, "value")
          THEN (entry.tag_name :> entry.value) @@ before
          ELSE before

\* lines 471-488
CleanTiff(d) ==
  IF Has(d, "tiff_structure") /\ ~Has(d.tiff_structure, "error")
  THEN LET tf == d.tiff_structure
           exif_tags == IF Has(tf, "entries")
                        THEN ExifTags(tf.entries, Len(tf.entries)) ELSE NoKeys
       IN [tiff |-> [byte_order |-> IF Has(d, "tiff_byte_order")
                                    THEN d.tiff_byte_order ELSE "Unknown"]
                    @@ Only(DOMAIN exif_tags # {}, [exif_tags |-> exif_tags])]
  ELSE NoKeys

\* the summary without the content
PlistInfoNoContent(plist) ==
  Only(Has(plist, "potential_key"), [key |-> plist.potential_key])
  @@ Only(Has(plist, "timestamp_data") /\ Has(plist.timestamp_data, "candidates")
            /\ plist.timestamp_data.candidates # << >>,
          [timestamp |-> plist.timestamp_data.candidates[1].date_time])

\* lines 495-509: the summary of one property list
PlistInfo(plist) ==
  Only(Has(plist, "potential_key"), [key |-> plist.potential_key])
  @@ Only(Has(plist, "content_preview") /\ plist.content_preview # << >>,
          [content |-> plist.content_preview])
  @@ Only(Has(plist, "timestamp_data") /\ Has(plist.timestamp_data, "candidates")
            /\ plist.timestamp_data.candidates # << >>,
          [timestamp |-> plist.timestamp_data.candidates[1].date_time])

\* lines 494-512: the summaries that are not empty, in order
RECURSIVE PlistInfos(_)
PlistInfos(structures) ==
  IF structures = << >> THEN << >>
  ELSE (IF DOMAIN PlistInfo(Head(structures)) # {}
        THEN <<PlistInfo(Head(structures))>> ELSE << >>)
       \o PlistInfos(Tail(structures))

\* lines 490-515
CleanPlists(d) ==
  Only(Has(d, "plist_count") /\ d.plist_count > 0
         /\ PlistInfos(d.identified_structures) # << >>,
       [property_lists |-> PlistInfos(d.identified_structures)])

\* the candidate of the smallest position, the first of several
FirstByPosition(candidates) ==
  candidates[CHOOSE j \in 1..Len(candidates) :
               /\ \A m \in 1..Len(candidates) :
                    candidates[j].position <= candidates[m].position
               /\ \A m \in 1..(j - 1) :
                    candidates[m].position > candidates[j].position]

\* the candidate create_clean_json takes from a list: the first one
FirstOf(candidates) == candidates[1]

\* lines 517-534
CleanCamera(d) ==
  LET Present(key) == Has(d, key) /\ d[key] # << >>
      camera_settings ==
        Only(Present("potential_iso_values"),
             [iso |-> FirstOf(d.potential_iso_values).value])
        @@ Only(Present("potential_aperture_values"),
                [aperture |-> <<"f/", FirstOf(d.potential_aperture_values).value>>])
        @@ Only(Present("potential_focal_length_values"),
                [focal_length |->
                   <<FirstOf(d.potential_focal_length_values).value, "mm">>])
  IN Only(DOMAIN camera_settings # {}, [camera_settings |-> camera_settings])

\* lines 536-542
CleanLocation(d) ==
  Only(Has(d, "potential_coordinates") /\ d.potential_coordinates # << >>,
       [location |->
          [coordinates |-> FirstOf(d.potential_coordinates).values,
           note |-> "Potential location coordinates (latitude, longitude)"]])

create_clean_json(d) ==
  [type |-> "Apple iOS MakerNote",
   metadata |-> CleanTiff(d) @@ CleanPlists(d) @@ CleanCamera(d) @@ CleanLocation(d)]
    @@ Only(Has(d, "device_uuid"), [device |-> [uuid |-> d.device_uuid]])


(***************************************************************************)
(* The inputs of the decoder: short texts for the normalizer, blobs put     *)
(* together from chunks the scanners react to, a UUID embedded in a few     *)
(* bytes of noise, and synthetic blocks (header, big-endian directory,      *)
(* property list with a timestamp, UUID).                                   *)
(***************************************************************************)
\* the inputs that are bytes objects with the contents in S
BytesInputs(S) == { [kind |-> "bytes", chars |-> cs] : cs \in S }

MaxChunks == 3

MaxNoise == 2

\* struct.pack('>ff', 45.0, -93.0) and struct.pack('>ff', 200.0, 10.0)
Pair45 == <<66, 52, 0, 0, 194, 186, 0, 0>>

Pair200 == <<67, 72, 0, 0, 65, 32, 0, 0>>

Chunks ==
  { <<0>>, <<0, 100>>, <<0, 200, 0>>, Pair45, Pair200,
    PackFloatBE(20), PackFloatBE(40), PackFloatBE(60) }

ChunkInputs ==
  { [kind |-> "bytes", chars |-> ConcatAll(cs)] : cs \in SeqsUpTo(Chunks, MaxChunks) }

\* "2ADD3835-BCFD-4C9A-B471-29819AF606CF" and the same in lower case
UuidUpper ==
  <<50, 65, 68, 68, 51, 56, 51, 53, 45, 66, 67, 70, 68, 45, 52, 67, 57, 65,
    45, 66, 52, 55, 49, 45, 50, 57, 56, 49, 57, 65, 70, 54, 48, 54, 67, 70>>

UuidLower == Lower(UuidUpper)

NoiseBytes == {0, Percent, 71}

\* the byte sequence r with u embedded at offset o
Embed(r, o, u) == Slice(r, 0, o) \o u \o SliceFrom(r, o)

UuidEmbeddings ==
  { Embed(r, o, u) : r \in SeqsUpTo(NoiseBytes, MaxNoise), o \in 0..MaxNoise,
                     u \in {UuidUpper, UuidLower} }

\* a directory, a UUID and a property list with a timestamp behind the
\* header marker; the timestamps are 2020-10-09 05:44:16 and
\* 2020-01-06 10:40:00 as seconds after 2001-01-01, 4 bytes big-endian
SynBlocks ==
  LET SynTimestamps == { <<37, 48, 48, 48>>, <<35, 195, 70, 0>> }
      SynDirectories ==
        { EncodeDir([be |-> TRUE, entries |-> es, gap |-> 0, tail |-> 0]) :
            es \in {l \in EntryLists : Len(l) <= 1} }
  IN { HeaderSignature \o d \o UuidUpper \o PlistSignature \o ts :
         d \in SynDirectories, ts \in SynTimestamps }
       \cup
     { HeaderSignature \o d \o PlistSignature \o ts \o UuidUpper :
         d \in SynDirectories, ts \in SynTimestamps }

SynInputs == BytesInputs(SynBlocks)

\* what may follow the header marker without being a directory: a wrong
\* magic under either marker, a bare marker, nothing; then material for
\* the scanners: a UUID and a property list with a timestamp, a pair of
\* coordinates and an ISO value
BrokenBlocks ==
  LET BrokenDirectories ==
        { MM \o <<0, 43, 0, 0, 0, 8>>, II \o <<43, 0, 8, 0, 0, 0>>, MM, << >> }
      BrokenTails ==
        { << >>, UuidUpper \o PlistSignature \o <<37, 48, 48, 48>>,
          Pair45 \o <<0, 0, 100>> }
  IN { HeaderSignature \o d \o t : d \in BrokenDirectories, t \in BrokenTails }

\* the header marker followed by a whole directory of either byte order,
\* with entries that resolve to a value and entries that do not
TagBlocks ==
  { HeaderSignature \o EncodeDir([be |-> be, entries |-> es, gap |-> 0, tail |-> 0]) :
      be \in BOOLEAN, es \in EntryLists }

\* seconds after 2001-01-01 as 4 bytes big-endian, around the ends of the
\* ranges of the timestamp test: 2010-12-31 23:59:59, 2011-01-01 00:00:00,
\* 2026-05-09 06:13:19 (799999999), 2026-05-09 06:13:20 (800000000),
\* 2028-01-01 00:00:00, 2029-12-31 23:59:59, 2030-01-01 00:00:00,
\* each behind a property list signature, in either byte order
StampBlocks ==
  LET StampPool ==
        { <<18, 206, 165, 255>>, <<18, 206, 166, 0>>, <<47, 175, 7, 255>>,
          <<47, 175, 8, 0>>, <<50, 200, 87, 128>>, <<54, 140, 15, 255>>,
          <<54, 140, 16, 0>> }
  IN { PlistSignature \o ts : ts \in StampPool }
       \cup { PlistSignature \o Reverse(ts) : ts \in StampPool }

\* a property list signature, a stretch of zero bytes and a short text, so
\* that the text lies before, across or after byte 50 from the signature;
\* the texts are "abc", "ab" and " abc "
PreviewBlocks ==
  LET PreviewGaps == {0, 39, 40, 41, 44}
      PreviewTexts == { <<97, 98, 99>>, <<97, 98>>, <<32, 97, 98, 99, 32>> }
  IN { PlistSignature \o Zeros(g) \o t \o <<0>> :
         g \in PreviewGaps, t \in PreviewTexts }

MaxUuids == 3

\* "A1B2C3D4-0000-4FFF-8ABC-0123456789EF"
UuidOther ==
  <<65, 49, 66, 50, 67, 51, 68, 52, 45, 48, 48, 48, 48, 45, 52, 70, 70, 70,
    45, 56, 65, 66, 67, 45, 48, 49, 50, 51, 52, 53, 54, 55, 56, 57, 69, 70>>

\* two UUIDs or more in a row, in upper or lower case, one after the
\* other, and two UUIDs a zero byte apart
UuidRows ==
  LET Picks(n) == [1..n -> {UuidUpper, UuidOther, UuidLower}]
  IN { ConcatAll(us) : us \in UNION { Picks(n) : n \in 2..MaxUuids } }
       \cup { us[1] \o <<0>> \o us[2] : us \in Picks(2) }

MaxEscaped == 2

\* bytes written as escapes: zero, the percent sign, the backslash, the
\* apostrophe and 0xAB
EscapedBytes == {0, Percent, Backslash, Apostrophe, 171}

\* the text \xHH of one byte, the hex digits in lower or upper case
EscapeOf(b, lower) ==
  LET HexChar(n) == IF n < 10 THEN 48 + n ELSE IF lower THEN 87 + n ELSE 55 + n
  IN <<Backslash, LetterX, HexChar(b \div 16), HexChar(b % 16)>>

\* the quote markers a text may be wrapped in: none, b'...', b"...", "..."
Wrappers ==
  { [open |-> << >>, close |-> << >>],
    [open |-> <<LetterB, Apostrophe>>, close |-> <<Apostrophe>>],
    [open |-> <<LetterB, Quote>>, close |-> <<Quote>>],
    [open |-> <<Quote>>, close |-> <<Quote>>] }

\* the text that writes every byte of bs as an escape, wrapped in w
EscapeText(bs, w, lower) ==
  w.open \o ConcatAll([k \in 1..Len(bs) |-> EscapeOf(bs[k], lower)]) \o w.close

EscapeInputs ==
  { [kind |-> "str", chars |-> EscapeText(bs, w, lower)] :
      bs \in SeqsUpTo(EscapedBytes, MaxEscaped), w \in Wrappers, lower \in BOOLEAN }

\* the header signature at the start, after a zero byte or after another
\* header signature, with a directory right behind it or a byte further:
\* a directory without entries in either byte order, whole, cut to its 8
\* header bytes and cut to 7 bytes
HeaderBlocks ==
  LET EmptyDirectories ==
        { Take(EncodeDir([be |-> be, entries |-> << >>, gap |-> 0, tail |-> 0]), n) :
            be \in BOOLEAN, n \in {7, 8, 10} }
  IN { pre \o HeaderSignature \o mid \o d :
         pre \in { << >>, <<0>>, HeaderSignature }, mid \in { << >>, <<0>> },
         d \in EmptyDirectories }

MaxPlists == 2

\* a property list signature alone, after a zero byte, and after the key
\* tokens "k1" and "k2" with a zero byte or a space in between
PlistRows ==
  LET PlistUnits ==
        { PlistSignature, <<0>> \o PlistSignature,
          <<107, 49, 0>> \o PlistSignature, <<107, 50, 32>> \o PlistSignature }
  IN { ConcatAll(us) : us \in UNION { [1..n -> PlistUnits] : n \in 1..MaxPlists } }

MaxRepeated == 2

\* entries that repeat the tag 274 with different values and without a
\* resolved value, and entries of two tags that are not in the table
RepeatedBlocks ==
  LET RepeatedPool ==
        { [tag |-> 274, type |-> 3, count |-> 1, short |-> TRUE, v |-> <<0, 6>>],
          [tag |-> 274, type |-> 3, count |-> 1, short |-> TRUE, v |-> <<0, 1>>],
          [tag |-> 274, type |-> 3, count |-> 2, short |-> TRUE, v |-> <<0, 3>>],
          [tag |-> 1,   type |-> 3, count |-> 1, short |-> TRUE, v |-> <<0, 7>>],
          [tag |-> 2,   type |-> 3, count |-> 1, short |-> TRUE, v |-> <<0, 8>>] }
  IN { HeaderSignature
         \o EncodeDir([be |-> be, entries |-> es, gap |-> 0, tail |-> 0]) :
         be \in BOOLEAN,
         es \in UNION { [1..n -> RepeatedPool] : n \in 1..MaxRepeated } }

\* a zero byte or a non-zero byte, then one or two values of the ISO table
\* in either byte order, side by side or one byte apart
IsoRows ==
  LET IsoPicks == {100, 200, 1600, 6400}
  IN { lead \o PackH(v, vbe) \o mid \o PackH(w, wbe) :
         lead \in {<<0>>, <<1>>}, mid \in {<< >>, <<0>>},
         v \in IsoPicks, w \in IsoPicks, vbe \in BOOLEAN, wbe \in BOOLEAN }

Inputs ==
  TextInputs \cup ChunkInputs \cup SynInputs \cup EscapeInputs
    \cup BytesInputs(UuidEmbeddings \cup BrokenBlocks \cup TagBlocks
                       \cup StampBlocks \cup PreviewBlocks \cup UuidRows
                       \cup HeaderBlocks \cup PlistRows \cup RepeatedBlocks
                       \cup IsoRows)

(***************************************************************************)
(* The pipeline: decode_apple_makernote(input), then create_clean_json of   *)
(* its result, as metadata_extractor calls them.                            *)
(***************************************************************************)
Init ==
  /\ pc = "norm_begin"
  /\ input \in Inputs
  /\ cleaned_str = << >> /\ i = 0 /\ cleaned_bytes = << >>
  /\ result = NoCall /\ clean = NoCall
  /\ earlier = << >>
  /\ dir = NoCall /\ data = << >> /\ big_endian = FALSE /\ tiff = NoCall

\* lines 62-250: the header, the directory and the scanners
Scan ==
  /\ pc = "scan"
  /\ result' = DecodeBytes(cleaned_bytes)
  /\ pc' = "decoded"
  /\ UNCHANGED <<input, cleaned_str, i, cleaned_bytes, clean, dir, data,
                 big_endian, tiff, earlier>>

\* create_clean_json(result)
CreateClean ==
  /\ pc = "decoded"
  /\ clean' = create_clean_json(result)
  /\ pc' = "done"
  /\ UNCHANGED <<input, cleaned_str, i, cleaned_bytes, result, dir, data,
                 big_endian, tiff, earlier>>

Next == NormBegin \/ NormStep \/ NormEnd \/ Scan \/ CreateClean

Spec == Init /\ [][Next]_vars

(***************************************************************************)
(* The same input decoded a second time in the same process: the outcome    *)
(* of the first call is recorded and the second call starts from whatever   *)
(* the first one left behind.                                               *)
(***************************************************************************)
CallAgain ==
  /\ pc \in {"done", "raised"}
  /\ earlier = << >>
  /\ earlier' = <<[input |-> input, outcome |-> pc, result |-> result,
                   clean |-> clean]>>
  /\ pc' = "norm_begin"
  /\ UNCHANGED <<input, cleaned_str, i, cleaned_bytes, result, clean, dir, data,
                 big_endian, tiff>>

NextTwice == Next \/ CallAgain

SpecTwice == Init /\ [][NextTwice]_vars

(***************************************************************************)
(* Properties of parse_tiff_ifd, under SpecIfd.                            *)
(***************************************************************************)
\* the call has returned and was made with the byte order of the directory
IfdParsed == pc = "ifd_done" /\ big_endian = dir.be

\* the 4-byte value field of entry k (1-based) as it lies in the data
ValueField(d, k) ==
  LET o == 8 + d.gap + 2 + (k - 1) * EntrySize + 8
  IN Slice(EncodeDir(d), o, o + 4)

\* the big-endian integer read by hand from the inline value bytes: the two
\* leading bytes of the field for a Short, all four for a Long
ManualBigEndian(type_id, field) ==
  IF type_id = 3 THEN <<0, field[1] * 256 + field[2]>>
  ELSE <<field[1] * 256 + field[2], field[3] * 256 + field[4]>>

\* C1: in a complete directory parsed under "MM", every entry of type Short
\* or Long with count 1 stores as its value the big-endian integer of its
\* inline value bytes, and the same directory written under "II" with swapped
\* byte order decodes to that same value.
C1_ByteOrderCorrect ==
  (IfdParsed /\ dir.be /\ data = EncodeDir(dir)) =>
    LET mm == tiff.ret.entries
        ii == parse_tiff_ifd(EncodeDir([dir EXCEPT !.be = FALSE]), FALSE).entries
    IN \A k \in 1..Len(dir.entries) :
         (dir.entries[k].type \in {3, 4} /\ dir.entries[k].count = 1) =>
           /\ "value" \in DOMAIN mm[k]
           /\ mm[k].value = ManualBigEndian(dir.entries[k].type, ValueField(dir, k))
           /\ "value" \in DOMAIN ii[k]
           /\ ii[k].value = mm[k].value

\* C2 as stated, for a directory that declares at least one entry: on every
\* prefix of a valid directory, the whole of it included, the parse reads no
\* byte at or past the end of the prefix and returns an error or a Directory
\* with fewer entries than the directory declares.
C2_FewerEntriesOnEveryPrefix ==
  (IfdParsed /\ Len(dir.entries) >= 1) =>
    /\ tiff.read_end <= Len(data)
    /\ \/ "error" \in DOMAIN tiff.ret
       \/ Len(tiff.ret.entries) < Len(dir.entries)

\* C2, amended: on every prefix of a valid directory the parse reads no byte
\* at or past the end of the prefix and never takes its exception path; it
\* returns an error exactly when the prefix is shorter than 8 bytes, and
\* otherwise a Directory that holds all the declared entries when the prefix
\* contains the whole declared table and no entry when it does not.
C2_TruncationSafe ==
  IfdParsed =>
    /\ tiff.read_end <= Len(data)
    /\ tiff.ret # TiffException
    /\ ("error" \in DOMAIN tiff.ret) <=> (Len(data) < 8)
    /\ Len(data) >= 8 =>
         Len(tiff.ret.entries) =
           IF Len(data) >= TableEnd(dir) THEN Len(dir.entries) ELSE 0

\* a two-entry directory cut inside its entry table: the count is read, no
\* entry is returned
C2_Witness ==
  /\ IfdParsed
  /\ Len(dir.entries) = 2
  /\ Len(data) = TableEnd(dir) - 1
  /\ "num_entries" \in DOMAIN tiff.ret
  /\ tiff.ret.num_entries = 2
  /\ tiff.ret.entries = << >>

(***************************************************************************)
(* Properties of parse_tiff_ifd on arbitrary buffers, under SpecTiff.       *)
(***************************************************************************)
TiffReturned == pc = "ifd_done"

\* the first two bytes are the order marker of the byte order asked for
MarkerAsAsked == Slice(data, 0, 2) = (IF big_endian THEN MM ELSE II)

\* the 2-byte magic of the data read by hand in the byte order asked for
MagicByHand ==
  IF big_endian THEN data[3] * 256 + data[4] ELSE data[4] * 256 + data[3]

WellFormedHeader == Len(data) >= 8 /\ MarkerAsAsked /\ MagicByHand = 42

\* C11: parse_tiff_ifd returns an error exactly when the data has fewer than
\* 8 bytes, or does not start with the order marker of the byte order asked
\* for, or its magic read in that byte order is not 42; otherwise it returns
\* a Directory with magic 42, and the catch-all exception result never
\* arises.
C11_ErrorIffMalformed ==
  TiffReturned =>
    /\ Has(tiff.ret, "error") <=> ~WellFormedHeader
    /\ WellFormedHeader =>
         (Has(tiff.ret, "magic") /\ tiff.ret.magic = 42 /\ Has(tiff.ret, "entries"))
    /\ tiff.ret # TiffException

\* a buffer of 8 bytes or more with the marker asked for and a wrong magic
C11_Witness ==
  /\ TiffReturned
  /\ Len(data) >= 8 /\ MarkerAsAsked /\ MagicByHand # 42
  /\ tiff.ret = [error |-> <<"Invalid TIFF magic number: ", MagicByHand>>]

\* the 12-byte record of entry k (1-based) of the returned Directory
TiffRecord(k) ==
  LET o == tiff.ret.ifd_offset[2] + 2 + (k - 1) * EntrySize
  IN Slice(data, o, o + EntrySize)

\* the type id and the count of a record read by hand in the byte order
\* asked for
TypeByHand(r) ==
  IF big_endian THEN r[3] * 256 + r[4] ELSE r[4] * 256 + r[3]

CountIsOne(r) ==
  Slice(r, 4, 8) = (IF big_endian THEN <<0, 0, 0, 1>> ELSE <<1, 0, 0, 0>>)

EntryBaseKeys == {"tag", "tag_name", "type", "count", "value_offset"}

\* C17: in a returned Directory an entry carries "value" exactly when its
\* record has type Short (3) or Long (4) and count 1; every other entry
\* carries tag, tag_name, type, count and value_offset and nothing else.
C17_ValueIffShortOrLongOnce ==
  (TiffReturned /\ Has(tiff.ret, "entries")) =>
    \A k \in 1..Len(tiff.ret.entries) :
      LET entry == tiff.ret.entries[k]
          literal == TypeByHand(TiffRecord(k)) \in {3, 4} /\ CountIsOne(TiffRecord(k))
      IN /\ Has(entry, "value") <=> literal
         /\ DOMAIN entry = IF literal THEN EntryBaseKeys \cup {"value"}
                           ELSE EntryBaseKeys

\* a Directory with a Short entry of count 2, returned without a value
C17_Witness ==
  /\ TiffReturned /\ Has(tiff.ret, "entries")
  /\ Len(tiff.ret.entries) = 1
  /\ TypeByHand(TiffRecord(1)) = 3 /\ ~CountIsOne(TiffRecord(1))
  /\ tiff.ret.entries[1].type.name = "SHORT"
  /\ ~Has(tiff.ret.entries[1], "value")

\* the entry count read by hand in the byte order asked for, at the
\* directory offset the result reports
CountByHand ==
  LET o == tiff.ret.ifd_offset[2]
  IN IF big_endian THEN data[o + 1] * 256 + data[o + 2]
     ELSE data[o + 2] * 256 + data[o + 1]

\* C26: a result without error has an entry list that is empty or as long
\* as the num_entries it reports, never in between; without num_entries the
\* list is empty; num_entries is the count that stands at the directory
\* offset; and when it is reported with an empty list it is 0 or the
\* declared table does not fit in the data.
C26_AllOrNothing ==
  (TiffReturned /\ Has(tiff.ret, "entries")) =>
    LET n == Len(tiff.ret.entries)
    IN IF Has(tiff.ret, "num_entries")
       THEN /\ tiff.ret.num_entries = CountByHand
            /\ n \in {0, tiff.ret.num_entries}
            /\ n = 0 =>
                 \/ tiff.ret.num_entries = 0
                 \/ tiff.ret.ifd_offset[2] + 2 + CountByHand * EntrySize > Len(data)
       ELSE n = 0

\* a directory that declares 2 entries and holds the record of the first
\* only: num_entries 2 with an empty list
C26_Witness ==
  /\ TiffReturned /\ Has(tiff.ret, "num_entries")
  /\ tiff.ret.num_entries = 2 /\ tiff.ret.entries = << >>
  /\ tiff.ret.ifd_offset[2] + 2 + EntrySize <= Len(data)

(***************************************************************************)
(* Properties of the pipeline, under Spec.                                  *)
(***************************************************************************)
\* the list under a key of the raw result, empty when the key is absent
ListOf(d, key) == IF Has(d, key) THEN d[key] ELSE << >>

Finished == pc = "done"

\* C3: the decoder never raises, whatever the input: bytes or text over any
\* characters, code points above 255 included.
C3_NeverRaises == pc # "raised"

LoopAdvances ==
  (pc = "norm_loop" /\ i < Len(cleaned_str)) =>
    (i' \in {i + 1, i + 3} /\ i' <= Len(cleaned_str))

\* a bound on the steps the call has left: the iterations of the loop are at
\* most the characters not yet consumed
StepsLeft ==
  CASE pc = "norm_begin" -> Len(input.chars) + 4
    [] pc = "norm_loop" -> Len(cleaned_str) - i + 3
    [] pc = "scan" -> 2
    [] pc = "decoded" -> 1
    [] OTHER -> 0

\* C4: every iteration of the normalizer loop, on every branch, increases the
\* index by 1 or by 3 within the string, and every step of a call lowers the
\* bound on the steps it has left, which is never negative: no call runs
\* forever.
C4_NeverHangs ==
  [][LoopAdvances /\ StepsLeft' < StepsLeft /\ StepsLeft' >= 0]_vars

\* the loop has run over a '%' followed by a non-hex character and over a
\* trailing '%' with fewer than two characters after it
C4_Witness ==
  /\ Finished
  /\ cleaned_str = <<Percent, 71, 52, Percent>>
  /\ cleaned_bytes = cleaned_str

\* C5: an input supplied as a real byte sequence is normalized to itself, so
\* raw_data_length is its length.
C5_IdentityOnBytes ==
  (Finished /\ input.kind = "bytes") =>
    /\ cleaned_bytes = input.chars
    /\ result.raw_data_length = Len(input.chars)

\* C6: a valid dashed hexadecimal UUID embedded at any offset of any byte
\* sequence is decoded as exactly that device_uuid.
C6_UuidRoundTrip ==
  Finished =>
    \A r \in SeqsUpTo(NoiseBytes, MaxNoise), u \in {UuidUpper, UuidLower} :
      \A o \in 0..Len(r) :
        (input.kind = "bytes" /\ input.chars = Embed(r, o, u)) =>
          (Has(result, "device_uuid") /\ result.device_uuid = u)

\* the offsets of the buffer at which the bytes 00 64 stand
Iso100Offsets ==
  {p \in 0..(Len(cleaned_bytes) - 2) : Slice(cleaned_bytes, p, p + 2) = <<0, 100>>}

ZeroBefore(p) == p > 0 /\ cleaned_bytes[p] = 0

IsoReported == Elements(ListOf(result, "potential_iso_values"))

\* C7: the bytes 00 64 at offset p of the scanned buffer are reported as the
\* ISO candidate 100 at p when the byte at p-1 is zero, and no ISO candidate
\* is reported at p when the byte before is not zero or there is none.
C7_IsoQualification ==
  Finished =>
    \A p \in Iso100Offsets :
      IF ZeroBefore(p)
      THEN [value |-> 100, position |-> p] \in IsoReported
      ELSE \A e \in IsoReported : e.position # p

\* a buffer with the bytes 00 64 both after a zero byte (reported) and after
\* a non-zero byte (not reported)
C7_Witness ==
  /\ Finished
  /\ \E p \in Iso100Offsets :
       ZeroBefore(p) /\ [value |-> 100, position |-> p] \in IsoReported
  /\ \E p \in Iso100Offsets : p > 0 /\ ~ZeroBefore(p)

CoordinatesReported == Elements(ListOf(result, "potential_coordinates"))

\* the offsets below k at which a pair of floats qualifies as coordinates
QualifyingBefore(k) ==
  {j \in 0..(k - 1) :
     j + 8 <= Len(cleaned_bytes)
       /\ LET pair == CoordinatePair(cleaned_bytes, j)
          IN CoordinateQualifies(pair[1], pair[2])}

\* C8: wherever the floats (45.0, -93.0) stand in the scanned buffer they are
\* reported in potential_coordinates with those values (the list keeps 3
\* pairs, so: unless 3 pairs qualify before them), and (200.0, 10.0) at an
\* offset is never reported at that offset.
C8_CoordinateBounds ==
  Finished =>
    \A k \in 0..(Len(cleaned_bytes) - 8) :
      /\ (Slice(cleaned_bytes, k, k + 8) = Pair45
            /\ Cardinality(QualifyingBefore(k)) < 3) =>
           \E e \in CoordinatesReported :
             /\ e.position = k
             /\ e.values = <<UnpackFloatBE(Slice(Pair45, 0, 4)),
                             UnpackFloatBE(Slice(Pair45, 4, 8))>>
      /\ Slice(cleaned_bytes, k, k + 8) = Pair200 =>
           \A e \in CoordinatesReported : e.position # k

\* the text has the form YYYY-MM-DD HH:MM:SS
IsDateTimeText(t) ==
  /\ Len(t) = 19
  /\ \A k \in 1..19 :
       IF k \in {5, 8} THEN t[k] = 45
       ELSE IF k = 11 THEN t[k] = 32
       ELSE IF k \in {14, 17} THEN t[k] = 58
       ELSE IsDigit(t[k])

\* C9: a synthetic block (header marker, big-endian directory, property list
\* with an in-range timestamp, UUID) gives a clean summary with the
\* big-endian byte order, a non-empty device uuid and a property list whose
\* timestamp reads YYYY-MM-DD HH:MM:SS.
C9_EndToEnd ==
  (Finished /\ input \in SynInputs) =>
    /\ Has(clean.metadata, "tiff")
    /\ clean.metadata.tiff.byte_order = "big-endian (Motorola)"
    /\ Has(clean, "device")
    /\ clean.device.uuid # << >>
    /\ Has(clean.metadata, "property_lists")
    /\ \E k \in 1..Len(clean.metadata.property_lists) :
         /\ Has(clean.metadata.property_lists[k], "timestamp")
         /\ IsDateTimeText(clean.metadata.property_lists[k].timestamp)

\* the candidate of the smallest offset, the first discovered of several
SmallestOffset(candidates) ==
  candidates[Least({j \in 1..Len(candidates) :
                      \A m \in 1..Len(candidates) :
                        candidates[j].position <= candidates[m].position})]

\* the smallest value among the candidates
SmallestValue(candidates) == Least({e.value : e \in Elements(candidates)})

CameraSettings ==
  IF Has(clean.metadata, "camera_settings")
  THEN clean.metadata.camera_settings ELSE NoKeys

\* C10: for each field the clean summary reports the value of the candidate
\* with the smallest offset among the candidates found, ties broken by
\* discovery order.
C10_SmallestOffset ==
  Finished =>
    /\ Has(result, "potential_iso_values") =>
         CameraSettings.iso = SmallestOffset(result.potential_iso_values).value
    /\ Has(result, "potential_aperture_values") =>
         CameraSettings.aperture =
           <<"f/", SmallestOffset(result.potential_aperture_values).value>>
    /\ Has(result, "potential_focal_length_values") =>
         CameraSettings.focal_length =
           <<SmallestOffset(result.potential_focal_length_values).value, "mm">>
    /\ Has(result, "potential_coordinates") =>
         clean.metadata.location.coordinates =
           SmallestOffset(result.potential_coordinates).values

\* C10, amended: the clean summary reports the first candidate discovered;
\* the tables are scanned in ascending order of value, so for iso, aperture
\* and focal_length that is the smallest value found, whatever its offset,
\* and for coordinates the pair of the smallest offset.  A field is present
\* exactly when it has a candidate.
C10_FirstDiscovered ==
  Finished =>
    /\ Has(CameraSettings, "iso") <=> Has(result, "potential_iso_values")
    /\ Has(CameraSettings, "aperture") <=> Has(result, "potential_aperture_values")
    /\ Has(CameraSettings, "focal_length")
         <=> Has(result, "potential_focal_length_values")
    /\ Has(clean.metadata, "location") <=> Has(result, "potential_coordinates")
    /\ Has(result, "potential_iso_values") =>
         CameraSettings.iso = SmallestValue(result.potential_iso_values)
    /\ Has(result, "potential_aperture_values") =>
         CameraSettings.aperture =
           <<"f/", SmallestValue(result.potential_aperture_values)>>
    /\ Has(result, "potential_focal_length_values") =>
         CameraSettings.focal_length =
           <<SmallestValue(result.potential_focal_length_values), "mm">>
    /\ Has(result, "potential_coordinates") =>
         clean.metadata.location.coordinates =
           SmallestOffset(result.potential_coordinates).values

\* the summary reports an ISO value that is not the one of the smallest offset
C10_Witness ==
  /\ Finished
  /\ Has(result, "potential_iso_values")
  /\ CameraSettings.iso # SmallestOffset(result.potential_iso_values).value
  /\ Has(result, "potential_coordinates")

\* the raw result is there
Decoded == pc \in {"decoded", "done"}

ScannerKeys ==
  {"plist_count", "identified_structures", "device_uuid", "uuid_position",
   "additional_uuids", "potential_iso_values", "potential_aperture_values",
   "potential_focal_length_values", "potential_coordinates"}

HeaderKeys == {"header", "header_position", "tiff_byte_order", "tiff_structure"}

\* the part of a raw result under the keys ks
Part(d, ks) == [k \in DOMAIN d \cap ks |-> d[k]]

\* the offsets of the scanned buffer at which the signature bplist00 stands
\* and those at which an upper-case dashed UUID stands
PlistOffsets ==
  {p \in 0..(Len(cleaned_bytes) - Len(PlistSignature)) :
     Slice(cleaned_bytes, p, p + Len(PlistSignature)) = PlistSignature}

UuidOffsets == {p \in 0..(Len(cleaned_bytes) - UuidLength) : UuidAt(cleaned_bytes, p)}

DirectoryFailed ==
  Has(result, "tiff_structure") /\ Has(result.tiff_structure, "error")

\* C12: the outputs of the scanners are what the scanners make of the
\* normalized bytes, in full, whether the header is absent, the directory
\* parse returned an error or it succeeded: one property list structure per
\* signature in the bytes, a device uuid exactly when a UUID stands in them,
\* coordinates exactly when a pair qualifies; and the header and directory
\* outputs are what the header stage makes of the bytes, whatever the
\* scanners matched.
C12_StagesIndependent ==
  Decoded =>
    /\ Part(result, ScannerKeys) =
         PlistFields(cleaned_bytes) @@ UuidFields(cleaned_bytes)
           @@ CameraFields(cleaned_bytes) @@ CoordinateFields(cleaned_bytes)
    /\ result.plist_count = Cardinality(PlistOffsets)
    /\ Len(result.identified_structures) = Cardinality(PlistOffsets)
    /\ Has(result, "device_uuid") <=> UuidOffsets # {}
    /\ Has(result, "potential_coordinates") <=>
         QualifyingBefore(Len(cleaned_bytes) - 8) # {}
    /\ Part(result, HeaderKeys) = HeaderFields(cleaned_bytes)

\* the directory parse returned an error and the scanners reported a
\* property list and a device uuid
C12_Witness ==
  /\ Decoded /\ DirectoryFailed
  /\ result.plist_count = 1 /\ Len(result.identified_structures) = 1
  /\ Has(result, "device_uuid") /\ result.device_uuid = UuidUpper

\* a call has ended, by returning the clean summary or by raising
Ended == pc \in {"done", "raised"}

\* C13: a second decode of the same input ends as the first one did and,
\* when it returns, yields the same raw output and the same clean summary,
\* the order of every list included: nothing depends on what the earlier
\* call left behind.
C13_Deterministic ==
  (Ended /\ earlier # << >>) =>
    /\ earlier[1].input = input
    /\ earlier[1].outcome = pc
    /\ pc = "done" =>
         (result = earlier[1].result /\ clean = earlier[1].clean)

\* the second decode of an input with a header, a directory, a property
\* list and a UUID has returned
C13_Witness ==
  /\ pc = "done" /\ earlier # << >>
  /\ input \in SynInputs
  /\ Len(result.identified_structures) > 0
  /\ result = earlier[1].result

\* the keys of the raw form as documented
DocumentedRawKeys ==
  {"type", "raw_data_length", "header", "header_position", "tiff_byte_order",
   "tiff_structure", "plist_count", "identified_structures", "device_uuid",
   "additional_uuids", "potential_iso_values", "potential_aperture_values",
   "potential_focal_length_values", "potential_coordinates"}

\* the optional lists of the raw form
OptionalLists ==
  {"additional_uuids", "potential_iso_values", "potential_aperture_values",
   "potential_focal_length_values", "potential_coordinates"}

\* C14 as stated: every top-level key of the raw output is a documented key.
C14_DocumentedKeysOnly == Decoded => DOMAIN result \subseteq DocumentedRawKeys

\* an optional field that is present has content: no empty placeholder
\* stands for an absent field, in the raw output or in the clean summary
NoEmptyField ==
  /\ \A k \in OptionalLists : Has(result, k) => result[k] # << >>
  /\ Has(result, "device_uuid") => result.device_uuid # << >>
  /\ \A k \in 1..Len(result.identified_structures) :
       LET st == result.identified_structures[k]
       IN /\ Has(st, "potential_key") => st.potential_key # << >>
          /\ Has(st, "timestamp_data") =>
               /\ DOMAIN st.timestamp_data # {}
               /\ \A f \in DOMAIN st.timestamp_data : st.timestamp_data[f] # << >>
  /\ Finished =>
       /\ Has(clean, "device") => clean.device.uuid # << >>
       /\ Has(clean.metadata, "tiff") =>
            (Has(clean.metadata.tiff, "exif_tags") =>
               DOMAIN clean.metadata.tiff.exif_tags # {})
       /\ Has(clean.metadata, "property_lists") =>
            /\ clean.metadata.property_lists # << >>
            /\ \A k \in 1..Len(clean.metadata.property_lists) :
                 DOMAIN clean.metadata.property_lists[k] # {}
       /\ Has(clean.metadata, "camera_settings") =>
            DOMAIN clean.metadata.camera_settings # {}

\* C14, amended: every top-level key of the raw output is a documented key
\* or uuid_position, which is present exactly when device_uuid is and holds
\* the offset of that UUID; type, raw_data_length, plist_count and
\* identified_structures are always present; a field that is present has
\* content.
C14_StableFieldSet ==
  Decoded =>
    /\ DOMAIN result \subseteq DocumentedRawKeys \cup {"uuid_position"}
    /\ {"type", "raw_data_length", "plist_count", "identified_structures"}
         \subseteq DOMAIN result
    /\ Has(result, "uuid_position") <=> Has(result, "device_uuid")
    /\ Has(result, "uuid_position") =>
         /\ result.uuid_position \in UuidOffsets
         /\ \A p \in UuidOffsets : result.uuid_position <= p
    /\ NoEmptyField

\* a decode that found a UUID at an offset after the start of the buffer
C14_Witness ==
  /\ Finished
  /\ Has(result, "device_uuid") /\ Has(result, "uuid_position")
  /\ result.uuid_position > 0
  /\ Has(clean, "device")

\* a prefix of a directory that holds the entry count but not the whole of
\* the declared table, parsed in the byte order of the directory
TableCut ==
  /\ pc = "ifd_done" /\ big_endian = dir.be
  /\ 8 + dir.gap + 2 < Len(data)
  /\ Len(data) < TableEnd(dir)

\* the number of 12-byte records of the table that lie wholly in the data
WholeRecords == (Len(data) - (8 + dir.gap + 2)) \div EntrySize

\* record k (1-based) of the table as it lies in the data
RecordBytes(k) ==
  Slice(data, 8 + dir.gap + 2 + (k - 1) * EntrySize,
        8 + dir.gap + 2 + k * EntrySize)

\* C15: when the directory offset is inside the buffer and the declared
\* table exceeds it, parse_tiff_ifd returns without error the leading
\* entries whose 12-byte records lie wholly inside the buffer, in file
\* order.
C15_LeadingEntriesReturned ==
  TableCut =>
    /\ ~Has(tiff.ret, "error")
    /\ tiff.ret.entries =
         [k \in 1..WholeRecords |-> ParseEntry(RecordBytes(k), big_endian)]

\* the timestamp candidates of a property list structure, none when the
\* structure has no timestamp data or that has keywords only
CandidatesOf(st) ==
  IF Has(st, "timestamp_data") /\ Has(st.timestamp_data, "candidates")
  THEN st.timestamp_data.candidates ELSE << >>

\* the most entries a candidate list is said to hold
CandidateCap == 3

\* C16: every candidate list of the raw output (the timestamp candidates of
\* each property list, the coordinates, the ISO, aperture and focal length
\* values) holds at most 3 entries, whatever the input.
C16_AtMostThreePerCategory ==
  Decoded =>
    /\ \A k \in {"potential_coordinates", "potential_iso_values",
                  "potential_aperture_values", "potential_focal_length_values"} :
         Len(ListOf(result, k)) <= CandidateCap
    /\ \A n \in 1..Len(result.identified_structures) :
         Len(CandidatesOf(result.identified_structures[n])) <= CandidateCap

\* the entries of the directory of the raw result
DirectoryEntries ==
  IF Has(result, "tiff_structure") /\ Has(result.tiff_structure, "entries")
  THEN result.tiff_structure.entries ELSE << >>

\* the tag names of the entries that carry a resolved value
ResolvedTagNames ==
  {DirectoryEntries[k].tag_name :
     k \in {n \in 1..Len(DirectoryEntries) : Has(DirectoryEntries[n], "value")}}

\* C18: the keys of metadata.tiff.exif_tags in the clean summary are exactly
\* the tag names of the directory entries that carry a resolved value, and
\* exif_tags is omitted when no entry carries one.
C18_TagMapKeys ==
  (Finished /\ Has(clean.metadata, "tiff")) =>
    IF ResolvedTagNames = {}
    THEN ~Has(clean.metadata.tiff, "exif_tags")
    ELSE /\ Has(clean.metadata.tiff, "exif_tags")
         /\ DOMAIN clean.metadata.tiff.exif_tags = ResolvedTagNames

\* a directory of two entries, one with a resolved value and one without,
\* summarized with a tag map of one key
C18_Witness ==
  /\ Finished /\ Has(clean.metadata, "tiff")
  /\ Len(DirectoryEntries) = 2
  /\ Has(DirectoryEntries[1], "value") /\ ~Has(DirectoryEntries[2], "value")
  /\ Has(clean.metadata.tiff, "exif_tags")
  /\ DOMAIN clean.metadata.tiff.exif_tags = {DirectoryEntries[1].tag_name}

\* a 32-bit value, as seconds after 2001-01-01, lands in a year after 2010
\* and before 2030
LandsBetween2010And2030(u) ==
  /\ u[1] < 32768
  /\ 2010 < AppleDateTime(u[1] * 65536 + u[2]).year
  /\ AppleDateTime(u[1] * 65536 + u[2]).year < 2030

\* the candidates of structure st hold the value u read at offset k
IsCandidate(st, u, k) ==
  \E c \in Elements(CandidatesOf(st)) :
    c.position = k /\ c.timestamp_value = u[1] * 65536 + u[2]

\* C19: a 4-byte value that starts within 100 bytes of a property list
\* signature, read in either byte order, is a timestamp candidate exactly
\* when it lands between the years 2010 and 2030 (the list keeps 3
\* candidates, so: is one when it does and the list is not full).
C19_TimestampWindow ==
  Decoded =>
    \A n \in 1..Len(result.identified_structures) :
      LET st == result.identified_structures[n]
      IN \A k \in st.position..(Min(Len(cleaned_bytes), st.position + 100) - 1) :
           \A be \in BOOLEAN :
             k + 4 <= Len(cleaned_bytes) =>
               LET u == UnpackI(Slice(cleaned_bytes, k, k + 4), be)
               IN /\ IsCandidate(st, u, k) => LandsBetween2010And2030(u)
                  /\ (LandsBetween2010And2030(u)
                        /\ Len(CandidatesOf(st)) < CandidateCap) =>
                       IsCandidate(st, u, k)

\* the offsets of a list of candidates, in list order
Positions(candidates) == [m \in 1..Len(candidates) |-> candidates[m].position]

NonDecreasing(offsets) ==
  \A m \in 1..(Len(offsets) - 1) : offsets[m] <= offsets[m + 1]

\* a match at offset k is among the kept ones, or 3 matches at offsets up to
\* k were kept
KeptOrCrowdedOut(kept, k) ==
  \/ k \in Elements(kept)
  \/ Cardinality({m \in 1..Len(kept) : kept[m] <= k}) >= CandidateCap

\* the offsets at which a pair of floats lies wholly in the buffer and
\* qualifies as coordinates
QualifyingPairs == QualifyingBefore(Len(cleaned_bytes) - 7)

\* C20: the coordinates and the timestamp candidates of each property list
\* are the qualifying matches of the (up to) 3 smallest offsets in
\* non-decreasing offset order: every kept entry is a qualifying match and a
\* qualifying match is missing only when 3 matches at offsets up to its own
\* were kept.
C20_EarliestMatchesKept ==
  Decoded =>
    /\ LET kept == Positions(ListOf(result, "potential_coordinates"))
       IN /\ Len(kept) <= CandidateCap
          /\ NonDecreasing(kept)
          /\ Elements(kept) \subseteq QualifyingPairs
          /\ \A k \in QualifyingPairs : KeptOrCrowdedOut(kept, k)
    /\ \A n \in 1..Len(result.identified_structures) :
         LET st == result.identified_structures[n]
             kept == Positions(CandidatesOf(st))
         IN /\ Len(kept) <= CandidateCap
            /\ NonDecreasing(kept)
            /\ \A k \in st.position..(Min(Len(cleaned_bytes), st.position + 100) - 1) :
                 \A be \in BOOLEAN :
                   (k + 4 <= Len(cleaned_bytes)
                      /\ IsTimestamp(UnpackI(Slice(cleaned_bytes, k, k + 4), be))) =>
                     KeptOrCrowdedOut(kept, k)

\* the bytes of the scanned buffer from offset pos, n of them at most
Window(pos, n) == Slice(cleaned_bytes, pos, Min(Len(cleaned_bytes), pos + n))

\* the maximal runs of printable bytes of w that are at least 3 long
LongRuns(w) ==
  { Slice(w, o, PrintableRunEnd(w, o)) :
      o \in {p \in 0..(Len(w) - 1) :
               /\ IsPrintable(w[p + 1])
               /\ (p = 0 \/ ~IsPrintable(w[p]))
               /\ PrintableRunEnd(w, p) - p >= 3} }

\* the number of bytes of w that are printable and not a space, all of them
\* and those that stand in a run at least 3 long
Solid(w) == Cardinality({k \in 1..Len(w) : IsPrintable(w[k]) /\ w[k] # 32})

SolidInLongRuns(w) ==
  Cardinality({k \in 1..Len(w) :
                 /\ IsPrintable(w[k]) /\ w[k] # 32
                 /\ \E a \in Max(0, k - 3)..(k - 1) :
                      /\ a + 3 <= Len(w)
                      /\ \A j \in (a + 1)..(a + 3) : IsPrintable(w[j])})

\* the preview holds every run of w that is at least 3 long (but for spaces
\* at its ends) and no character of a shorter run
PreviewOf(preview, w) ==
  /\ \A r \in LongRuns(w) : Contains(preview, Strip(r))
  /\ Solid(preview) = SolidInLongRuns(w)

\* C21 as stated: content_preview of a property list holds every maximal run
\* of printable ASCII of length 3 or more that lies in the (up to) 100 bytes
\* from the signature, and no shorter run.
C21_PreviewOf100Bytes ==
  Decoded =>
    \A n \in 1..Len(result.identified_structures) :
      LET st == result.identified_structures[n]
      IN PreviewOf(st.content_preview, Window(st.position, 100))

\* C21, amended: content_preview of a property list holds every maximal run
\* of printable ASCII of length 3 or more of the (up to) 50 bytes from the
\* signature, a run being cut where those 50 bytes end, and no character of
\* a shorter run.
C21_PreviewOf50Bytes ==
  Decoded =>
    \A n \in 1..Len(result.identified_structures) :
      LET st == result.identified_structures[n]
      IN PreviewOf(st.content_preview, Window(st.position, 50))

\* a property list with a run of 3 printable bytes after byte 50 from the
\* signature, left out of the preview
C21_Witness ==
  /\ Decoded /\ Len(result.identified_structures) = 1
  /\ result.identified_structures[1].position = 0
  /\ Len(cleaned_bytes) > 50
  /\ LongRuns(SliceFrom(cleaned_bytes, 50)) # {}
  /\ result.identified_structures[1].content_preview = PlistSignature

\* the offsets of UuidOffsets in ascending order
RECURSIVE Ascending(_)
Ascending(S) ==
  IF S = {} THEN << >> ELSE <<Least(S)>> \o Ascending(S \ {Least(S)})

UuidTextAt(p) == Slice(cleaned_bytes, p, p + UuidLength)

\* C22: device_uuid is the match of the UUID pattern with the smallest
\* offset, additional_uuids lists all the other matches by ascending offset
\* and is present exactly when there are two matches or more, and both are
\* absent when there is no match.  (Two matches of the pattern cannot
\* overlap: the dashes of one would fall on hex digits of the other.)
C22_FirstAndAdditional ==
  Decoded =>
    LET offsets == Ascending(UuidOffsets)
    IN /\ \A m \in 1..(Len(offsets) - 1) : offsets[m] + UuidLength <= offsets[m + 1]
       /\ Has(result, "device_uuid") <=> Len(offsets) >= 1
       /\ Has(result, "additional_uuids") <=> Len(offsets) >= 2
       /\ Len(offsets) >= 1 => result.device_uuid = UuidTextAt(offsets[1])
       /\ Len(offsets) >= 2 =>
            result.additional_uuids =
              [m \in 1..(Len(offsets) - 1) |-> UuidTextAt(offsets[m + 1])]

\* three matches: the first is the device uuid, the other two follow in
\* order of offset
C22_Witness ==
  /\ Decoded
  /\ Cardinality(UuidOffsets) = 3
  /\ result.device_uuid = UuidOther
  /\ result.additional_uuids = <<UuidUpper, UuidOther>>

\* the offset of the last 8 bytes of the scanned buffer
LastPairOffset == Len(cleaned_bytes) - 8

\* C23: the coordinate scan examines every offset that leaves 8 bytes, the
\* last one included: a qualifying pair in the last 8 bytes of the buffer is
\* reported when fewer than 3 pairs qualify at earlier offsets.
C23_LastPairExamined ==
  (/\ Decoded /\ LastPairOffset >= 0
   /\ LastPairOffset \in QualifyingPairs
   /\ Cardinality(QualifyingBefore(LastPairOffset)) < CandidateCap) =>
    \E e \in CoordinatesReported : e.position = LastPairOffset

\* C24: the text that writes each byte of a byte sequence B as a
\* backslash-x escape of two hex digits, bare or wrapped in b'...', b"..."
\* or "...", is normalized to exactly B, and raw_data_length is the length
\* of B.
C24_EscapeRoundTrip ==
  (pc \in {"scan", "decoded", "done"} /\ input.kind = "str") =>
    \A w \in Wrappers, lower \in BOOLEAN :
      \A bs \in UNION { [1..n -> EscapedBytes] :
                        n \in {m \in 0..MaxEscaped :
                                 Len(input.chars)
                                   = Len(w.open) + 4 * m + Len(w.close)} } :
      input.chars = EscapeText(bs, w, lower) =>
        /\ cleaned_bytes = bs
        /\ result.raw_data_length = Len(bs)

\* the escapes of a percent sign and of 0xAB in lower case inside b"...",
\* decoded to those two bytes
C24_Witness ==
  /\ Finished
  /\ input.chars = EscapeText(<<Percent, 171>>, [open |-> <<LetterB, Quote>>,
                                                 close |-> <<Quote>>], TRUE)
  /\ cleaned_bytes = <<Percent, 171>>
  /\ result.raw_data_length = 2

\* the offsets of the scanned buffer at which the header signature stands
HeaderOffsets ==
  {p \in 0..(Len(cleaned_bytes) - Len(HeaderSignature)) :
     Slice(cleaned_bytes, p, p + Len(HeaderSignature)) = HeaderSignature}

\* the bytes that follow the signature at offset p are a directory header:
\* an order marker, 8 bytes at least from the marker on, and the magic 42
\* in the byte order of the marker
DirectoryHeaderAfter(p) ==
  LET m == p + Len(HeaderSignature)
      rest == SliceFrom(cleaned_bytes, m)
  IN /\ Len(rest) >= 8
     /\ \/ Take(rest, 2) = MM /\ rest[3] * 256 + rest[4] = 42
        \/ Take(rest, 2) = II /\ rest[4] * 256 + rest[3] = 42

\* C25: the clean summary has metadata.tiff exactly when the first
\* occurrence of the header signature is directly followed by an "MM" or
\* "II" marker, 8 bytes at least remain from the marker on and the magic
\* read in that byte order is 42; in every other case metadata.tiff is
\* absent and the scanners still report the property lists and the UUID.
C25_TiffIffDirectoryHeader ==
  Finished =>
    LET wellformed == HeaderOffsets # {} /\ DirectoryHeaderAfter(Least(HeaderOffsets))
    IN /\ Has(clean.metadata, "tiff") <=> wellformed
       /\ ~wellformed =>
            /\ result.plist_count = Cardinality(PlistOffsets)
            /\ Has(result, "device_uuid") <=> UuidOffsets # {}
            /\ Has(clean, "device") <=> UuidOffsets # {}
            /\ Has(clean.metadata, "property_lists") <=> PlistOffsets # {}

\* two header signatures, the first followed by the second and the second
\* by a directory header: no metadata.tiff
C25_Witness ==
  /\ Finished
  /\ Cardinality(HeaderOffsets) = 2
  /\ ~DirectoryHeaderAfter(Least(HeaderOffsets))
  /\ DirectoryHeaderAfter(Greatest(HeaderOffsets))
  /\ ~Has(clean.metadata, "tiff")

\* C27: plist_count is the length of identified_structures and the number
\* of occurrences of the signature, the positions are the offsets of the
\* occurrences in strictly increasing order, and every content_preview
\* begins with the signature text; so, when plist_count > 0, the clean
\* summary's property_lists has plist_count entries, each with the content
\* of its structure.
C27_PlistAccounting ==
  Decoded =>
    LET sts == result.identified_structures
    IN /\ result.plist_count = Len(sts)
       /\ Len(sts) = Cardinality(PlistOffsets)
       /\ {sts[n].position : n \in 1..Len(sts)} = PlistOffsets
       /\ \A n \in 1..(Len(sts) - 1) : sts[n].position < sts[n + 1].position
       /\ \A n \in 1..Len(sts) :
            Take(sts[n].content_preview, Len(PlistSignature)) = PlistSignature
       /\ (Finished /\ result.plist_count > 0) =>
            /\ Has(clean.metadata, "property_lists")
            /\ Len(clean.metadata.property_lists) = result.plist_count
            /\ \A n \in 1..Len(sts) :
                 /\ Has(clean.metadata.property_lists[n], "content")
                 /\ clean.metadata.property_lists[n].content = sts[n].content_preview

\* two property lists without key or timestamp, summarized by two entries
C27_Witness ==
  /\ Finished /\ result.plist_count = 2
  /\ \A n \in 1..2 :
       /\ ~Has(result.identified_structures[n], "potential_key")
       /\ ~Has(result.identified_structures[n], "timestamp_data")
  /\ Len(clean.metadata.property_lists) = 2

\* the alphanumeric token that ends right before the zero bytes or the
\* white space in front of offset pos, cut at 30 bytes before pos; << >>
\* when the signature at pos has no such token in front of it
TokenBefore(pos) ==
  LET lo == Max(0, pos - 30)
      zeros == {q \in lo..pos : \A j \in (q + 1)..pos : cleaned_bytes[j] = 0}
      blanks == {q \in lo..pos : \A j \in (q + 1)..pos : cleaned_bytes[j] \in ReSpaceBytes}
      sep == IF Least(zeros) < pos THEN Least(zeros) ELSE Least(blanks)
      token == {q \in lo..sep : \A j \in (q + 1)..sep : cleaned_bytes[j] \in AlnumBytes}
  IN IF sep = pos THEN << >>
     ELSE Slice(cleaned_bytes, Least(token), sep)

\* C28: the potential_key of the property list at offset pos is the
\* alphanumeric token that directly precedes the signature at pos,
\* separated from it by zero bytes or white space only, within the 30 bytes
\* before pos; never a token in front of an earlier signature.
C28_KeyOfSameSignature ==
  Decoded =>
    \A n \in 1..Len(result.identified_structures) :
      LET st == result.identified_structures[n]
      IN Has(st, "potential_key") =>
           (TokenBefore(st.position) # << >>
              /\ st.potential_key = TokenBefore(st.position))

\* the index of the last directory entry of the tag name that carries a
\* resolved value
LastResolved(name) ==
  CHOOSE k \in 1..Len(DirectoryEntries) :
    /\ DirectoryEntries[k].tag_name = name /\ Has(DirectoryEntries[k], "value")
    /\ \A j \in (k + 1)..Len(DirectoryEntries) :
         ~(DirectoryEntries[j].tag_name = name /\ Has(DirectoryEntries[j], "value"))

\* C29: when several entries with a resolved value share a tag name,
\* exif_tags holds under that name the value of the last of them in file
\* order; entries of distinct tag ids have distinct names, and no two rows
\* of the tag table share a name.
C29_LastDuplicateWins ==
  /\ Cardinality({ExifTagTable[k][2] : k \in 1..Len(ExifTagTable)})
       = Len(ExifTagTable)
  /\ \A j, k \in 1..Len(DirectoryEntries) :
       DirectoryEntries[j].tag # DirectoryEntries[k].tag =>
         DirectoryEntries[j].tag_name # DirectoryEntries[k].tag_name
  /\ (Finished /\ Has(clean.metadata, "tiff")
        /\ Has(clean.metadata.tiff, "exif_tags")) =>
       \A name \in DOMAIN clean.metadata.tiff.exif_tags :
         /\ name \in ResolvedTagNames
         /\ clean.metadata.tiff.exif_tags[name] =
              DirectoryEntries[LastResolved(name)].value

\* two entries of one tag with different resolved values, the second one
\* in the summary
C29_Witness ==
  /\ Finished /\ Len(DirectoryEntries) = 2
  /\ DirectoryEntries[1].tag = DirectoryEntries[2].tag
  /\ Has(DirectoryEntries[1], "value") /\ Has(DirectoryEntries[2], "value")
  /\ DirectoryEntries[1].value # DirectoryEntries[2].value
  /\ Has(clean.metadata, "tiff") /\ Has(clean.metadata.tiff, "exif_tags")
  /\ clean.metadata.tiff.exif_tags[DirectoryEntries[2].tag_name] =
       DirectoryEntries[2].value

\* C30: every entry of potential_iso_values has a position of at least 1
\* that leaves two bytes before the end of the scanned buffer, a zero byte
\* right before the position, a value of the ISO table, and at the position
\* the two bytes of the value in big-endian or little-endian order; no
\* offset is reported for two different values.
C30_IsoCandidatesSound ==
  Decoded =>
    /\ \A e \in IsoReported :
         /\ 1 <= e.position
         /\ e.position + 2 <= result.raw_data_length
         /\ result.raw_data_length = Len(cleaned_bytes)
         /\ cleaned_bytes[e.position] = 0
         /\ e.value \in {100, 200, 400, 800, 1600, 3200, 6400}
         /\ LET two == Slice(cleaned_bytes, e.position, e.position + 2)
                hi == e.value \div 256
                lo == e.value % 256
            IN two = <<hi, lo>> \/ two = <<lo, hi>>
    /\ \A e, f \in IsoReported : e.position = f.position => e.value = f.value

\* two different values of the table reported side by side, the first in
\* little-endian and the second in big-endian order
C30_Witness ==
  /\ Decoded
  /\ \E e, f \in IsoReported :
       /\ f.position = e.position + 2 /\ e.value # f.value
       /\ Slice(cleaned_bytes, e.position, e.position + 2)
            = <<e.value % 256, e.value \div 256>>
       /\ Slice(cleaned_bytes, f.position, f.position + 2)
            = <<f.value \div 256, f.value % 256>>

====
